---- MODULE Spec2Model ----
(***************************************************************************)
(* ARC4DE backend: the token store, the login rate limiter and the auth    *)
(* routes (app/core/token_store.py, app/core/auth.py, app/api/auth.py),    *)
(* the tmux session manager (app/core/tmux.py) and the WebSocket terminal  *)
(* handler (app/ws/terminal.py).                                           *)
(*                                                                         *)
(* The backend is one asyncio event loop: a coroutine runs without         *)
(* interruption from one await to the next, so each action below is the    *)
(* code between two suspension points.  The auth routes are `async def`    *)
(* bodies with no await in them: each runs as one step.                    *)
(***************************************************************************)
EXTENDS Integers, Sequences, FiniteSets, TLC

\* ------------------------------------------------------------------ bounds
MaxJti == 3          \* refresh-token ids uuid4 hands out in one run
MaxInFlight == 2     \* HTTP auth requests in flight at the same time
MaxTicks == 3        \* times the monotonic clock is seen to advance
UsesCap == 3         \* presentations of one refresh token counted (then "many")

\* ------------------------------------------------------- program constants
MaxAttempts == 5
WindowSeconds == 60
LockoutSeconds == 900

\* the clock advances by one window, or by the rest of a lockout
TickSteps == {WindowSeconds, LockoutSeconds - WindowSeconds}

AuthPassword == "changeme"
Passwords == {"changeme", "wrong"}

NoJti == 0
None == -1

VARIABLES
    \* --- auth (token store, rate limiter, requests)
    active,        \* RefreshTokenStore._active_jtis
    failures,      \* LoginRateLimiter._failures
    lockedUntil,   \* LoginRateLimiter._locked_until (None when unset)
    now,           \* time.monotonic()
    nextJti,       \* the next fresh uuid4 jti
    req,           \* the auth requests in flight, one per slot
    nTicks,        \* advances of the clock so far
    \* --- history the claims are stated over
    uses,          \* per jti: requests that presented a refresh token with it
    rotated,       \* jtis a successful refresh rotated away
    failLog,       \* times of the 401 login responses since the last 200 login
    \* --- tmux and the session registry
    tmux,          \* the tmux server: live session name -> clients attached
                   \* from outside the gateway
    registry,      \* _session_registry: session_id -> name, created_at
    usedIds,       \* session ids uuid4 has handed out
    wall,          \* datetime.now(timezone.utc)
    op,            \* the TmuxManager calls in progress, one per slot
    \* --- terminal connections
    conn,          \* the WebSocket connections, one terminal_handler each
    \* --- background tasks
    tun,           \* the TunnelManager and the preview tasks
    sweeper        \* the _cleanup_loop task

authVars == <<active, failures, lockedUntil, now, nextJti, req,
              nTicks, uses, rotated, failLog>>

tmuxVars == <<tmux, registry, usedIds, wall>>
vars == <<authVars, tmuxVars, op, conn, tun, sweeper>>

Slots == 1..MaxInFlight
Jtis == 1..MaxJti

\* ----------------------------------------------------------- app/core/auth
\* A token is what jwt.decode sees of it: whether the signature verifies,
\* whether exp has passed, the type claim and the jti claim (NoJti when the
\* claim is absent).
AccessToken == [sig |-> TRUE, expired |-> FALSE, typ |-> "access", jti |-> NoJti]
RefreshToken(j) == [sig |-> TRUE, expired |-> FALSE, typ |-> "refresh", jti |-> j]
GarbageToken == [sig |-> FALSE, expired |-> FALSE, typ |-> "none", jti |-> NoJti]
ExpiredAccessToken == [AccessToken EXCEPT !.expired = TRUE]
\* the empty string where a token is expected
EmptyToken == [sig |-> FALSE, expired |-> FALSE, typ |-> "", jti |-> NoJti]

\* jwt.decode(token, secret, algorithms): signature and exp claim
jwt_decode(token) == token.sig /\ ~token.expired

verify_password(password) == password = AuthPassword

\* line 57: jti = uuid4().hex, a value no earlier call returned; j counts
\* the calls
create_token_pair_same_jti(j) == [access_token |-> AccessToken,
                                  refresh_token |-> RefreshToken(1)]
create_token_pair(j) == [access_token |-> AccessToken,
                         refresh_token |-> RefreshToken(j)]

decode_access_token_any_type(token) ==
    IF ~jwt_decode(token) THEN [ok |-> FALSE] ELSE [ok |-> TRUE]
decode_access_token(token) ==
    IF ~jwt_decode(token) THEN [ok |-> FALSE]
    ELSE IF token.typ # "access" THEN [ok |-> FALSE]
    ELSE [ok |-> TRUE]

decode_refresh_token(token) ==
    IF ~jwt_decode(token) THEN [ok |-> FALSE, jti |-> NoJti]
    ELSE IF token.typ # "refresh" THEN [ok |-> FALSE, jti |-> NoJti]
    ELSE IF token.jti = NoJti THEN [ok |-> FALSE, jti |-> NoJti]
    ELSE [ok |-> TRUE, jti |-> token.jti]

\* ---------------------------------------------------- app/core/token_store
add_toggles(jtis, jti) ==
    IF jti \in jtis THEN jtis \ {jti} ELSE jtis \cup {jti}
add_forgets(jtis, jti) == jtis
add(jtis, jti) == jtis \cup {jti}

is_valid_always(jtis, jti) == TRUE
is_valid(jtis, jti) == jti \in jtis

revoke_nothing(jtis, jti) == jtis
revoke(jtis, jti) == jtis \ {jti}

rotate_activates_anyway(jtis, old_jti, new_jti) ==
    IF old_jti \notin jtis
    THEN [raised |-> TRUE, jtis |-> jtis \cup {new_jti}]
    ELSE [raised |-> FALSE, jtis |-> (jtis \ {old_jti}) \cup {new_jti}]
rotate_keeps_old(jtis, old_jti, new_jti) ==
    IF old_jti \notin jtis
    THEN [raised |-> TRUE, jtis |-> jtis]
    ELSE [raised |-> FALSE, jtis |-> jtis \cup {new_jti}]
rotate(jtis, old_jti, new_jti) ==
    IF old_jti \notin jtis
    THEN [raised |-> TRUE, jtis |-> jtis]
    ELSE [raised |-> FALSE, jtis |-> (jtis \ {old_jti}) \cup {new_jti}]

\* is_locked() at time t: the answer and the limiter's state after the call
is_locked_keeps_history(fs, lu, t) ==
    IF lu # None
    THEN IF t < lu
         THEN [locked |-> TRUE, failures |-> fs, lockedUntil |-> lu]
         ELSE [locked |-> FALSE, failures |-> fs, lockedUntil |-> None]
    ELSE [locked |-> FALSE, failures |-> fs, lockedUntil |-> lu]
is_locked(fs, lu, t) ==
    IF lu # None
    THEN IF t < lu
         THEN [locked |-> TRUE, failures |-> fs, lockedUntil |-> lu]
         ELSE [locked |-> FALSE, failures |-> <<>>, lockedUntil |-> None]
    ELSE [locked |-> FALSE, failures |-> fs, lockedUntil |-> lu]

record_failure_counts_before_prune(fs, lu, t) ==
    LET cutoff == t - WindowSeconds
        InWindow(x) == x > cutoff
        kept == SelectSeq(Append(fs, t), InWindow)
    IN  [failures |-> kept,
         lockedUntil |-> IF Len(fs) + 1 >= MaxAttempts
                         THEN t + LockoutSeconds ELSE lu]
record_failure_no_prune(fs, lu, t) ==
    LET kept == Append(fs, t)
    IN  [failures |-> kept,
         lockedUntil |-> IF Len(kept) >= MaxAttempts
                         THEN t + LockoutSeconds ELSE lu]
record_failure(fs, lu, t) ==
    LET cutoff == t - WindowSeconds
        InWindow(x) == x > cutoff
        kept == SelectSeq(Append(fs, t), InWindow)
    IN  [failures |-> kept,
         lockedUntil |-> IF Len(kept) >= MaxAttempts
                         THEN t + LockoutSeconds ELSE lu]

reset_deadline_only == [failures |-> failures, lockedUntil |-> None]
reset == [failures |-> <<>>, lockedUntil |-> None]

\* ------------------------------------------------------------ app/api/auth
IdleReq == [pc |-> "idle", kind |-> "none", password |-> "none",
            token |-> GarbageToken, status |-> 0, out |-> NoJti, rival |-> 0,
            access |-> GarbageToken, ret |-> FALSE, cleared |-> FALSE]

\* the refresh tokens a client can present: the ones issued so far, an access
\* token in their place, or bytes that are no token
Presentable == {RefreshToken(j) : j \in 1..(nextJti - 1)}
                   \cup {AccessToken, GarbageToken}

\* the history the claims read, after a login answered with `status`
FailLogAfter(status) ==
    LET n == Len(failLog)
        base == IF n >= MaxAttempts /\ now >= failLog[n] + LockoutSeconds
                THEN <<>> ELSE failLog
    IN  CASE status = 401 -> Append(base, now)
          [] status = 200 -> <<>>
          [] OTHER -> base

ArriveLogin(r, password) ==
    /\ req[r].pc = "idle"
    /\ nextJti <= MaxJti
    /\ req' = [req EXCEPT ![r] = [IdleReq EXCEPT !.pc = "pending",
                                   !.kind = "login", !.password = password]]
    /\ UNCHANGED <<active, failures, lockedUntil, now, nextJti, nTicks, uses,
                   rotated, failLog>>
    /\ UNCHANGED <<tmuxVars, op, conn, tun, sweeper>>

\* login(), lines 75-86: the order of its two tests
login_checks_password_first(locked, password_ok) ==
    IF ~password_ok THEN 401 ELSE IF locked THEN 429 ELSE 200
login_checks(locked, password_ok) ==
    IF locked THEN 429 ELSE IF ~password_ok THEN 401 ELSE 200

\* login(): lines 73-98. cleared: this login found a lockout deadline that
\* had run out
HandleLogin(r) ==
    /\ req[r].pc = "pending" /\ req[r].kind = "login"
    /\ LET lk == is_locked(failures, lockedUntil, now)
           goes == login_checks(lk.locked, verify_password(req[r].password))
       IN  IF goes = 429
           THEN /\ req' = [req EXCEPT ![r].pc = "done", ![r].status = 429]
                /\ failures' = lk.failures
                /\ lockedUntil' = lk.lockedUntil
                /\ failLog' = FailLogAfter(429)
                /\ UNCHANGED <<active, nextJti>>
           ELSE IF goes = 401
           THEN LET rf == record_failure(lk.failures, lk.lockedUntil, now)
                IN  /\ req' = [req EXCEPT ![r].pc = "done", ![r].status = 401]
                    /\ failures' = rf.failures
                    /\ lockedUntil' = rf.lockedUntil
                    /\ failLog' = FailLogAfter(401)
                    /\ UNCHANGED <<active, nextJti>>
           ELSE LET pair == create_token_pair(nextJti)
                    refresh_payload == decode_refresh_token(pair.refresh_token)
                IN  /\ failures' = reset.failures
                    /\ lockedUntil' = reset.lockedUntil
                    /\ active' = add(active, refresh_payload.jti)
                    /\ nextJti' = nextJti + 1
                    /\ req' = [req EXCEPT ![r].pc = "done", ![r].status = 200,
                                          ![r].out = refresh_payload.jti,
                                          ![r].cleared = lockedUntil # None]
                    /\ failLog' = FailLogAfter(200)
    /\ UNCHANGED <<now, nTicks, uses, rotated>>
    /\ UNCHANGED <<tmuxVars, op, conn, tun, sweeper>>

ArriveRefresh(r, token) ==
    /\ req[r].pc = "idle"
    /\ nextJti <= MaxJti
    /\ token \in Presentable
    /\ LET rivals == {q \in Slots \ {r} : /\ req[q].pc = "pending"
                                           /\ req[q].kind = "refresh"
                                           /\ req[q].token = token
                                           /\ req[q].rival = 0}
           q == IF rivals = {} THEN 0 ELSE CHOOSE x \in rivals : TRUE
       IN  req' = [s \in Slots |->
                     IF s = r THEN [IdleReq EXCEPT !.pc = "pending",
                                      !.kind = "refresh", !.token = token,
                                      !.rival = q]
                     ELSE IF s = q THEN [req[s] EXCEPT !.rival = r]
                     ELSE req[s]]
    /\ uses' = IF token.jti \in Jtis
               THEN [uses EXCEPT ![token.jti] =
                                    IF @ < UsesCap THEN @ + 1 ELSE @]
               ELSE uses
    /\ UNCHANGED <<active, failures, lockedUntil, now, nextJti, nTicks,
                   rotated, failLog>>
    /\ UNCHANGED <<tmuxVars, op, conn, tun, sweeper>>

\* refresh(): lines 101-126
HandleRefresh(r) ==
    /\ req[r].pc = "pending" /\ req[r].kind = "refresh"
    /\ LET old_payload == decode_refresh_token(req[r].token)
           old_jti == old_payload.jti
       IN  IF ~old_payload.ok
           THEN /\ req' = [req EXCEPT ![r].pc = "done", ![r].status = 401]
                /\ UNCHANGED <<active, nextJti, rotated>>
           ELSE IF ~is_valid(active, old_jti)
           THEN /\ req' = [req EXCEPT ![r].pc = "done", ![r].status = 401]
                /\ UNCHANGED <<active, nextJti, rotated>>
           ELSE LET new_pair == create_token_pair(nextJti)
                    new_jti == decode_refresh_token(new_pair.refresh_token).jti
                    rot == rotate(active, old_jti, new_jti)
                IN  /\ nextJti' = nextJti + 1
                    /\ active' = rot.jtis
                    /\ IF rot.raised
                       THEN /\ req' = [req EXCEPT ![r].pc = "done",
                                                  ![r].status = 500]
                            /\ UNCHANGED rotated
                       ELSE /\ req' = [req EXCEPT ![r].pc = "done",
                                                  ![r].status = 200,
                                                  ![r].out = new_jti]
                            /\ rotated' = rotated \cup {old_jti}
    /\ UNCHANGED <<failures, lockedUntil, now, nTicks, uses, failLog>>
    /\ UNCHANGED <<tmuxVars, op, conn, tun, sweeper>>

\* the client reads the response; the slot is free again
Collect(r) ==
    /\ req[r].pc = "done"
    /\ IF req[r].rival = 0 THEN TRUE ELSE req[req[r].rival].pc = "done"
    /\ req' = [s \in Slots |->
                 IF s = r THEN IdleReq
                 ELSE IF req[s].rival = r THEN [req[s] EXCEPT !.rival = 0]
                 ELSE req[s]]
    /\ UNCHANGED <<active, failures, lockedUntil, now, nextJti, nTicks,
                   uses, rotated, failLog>>
    /\ UNCHANGED <<tmuxVars, op, conn, tun, sweeper>>

Tick(d) ==
    /\ nTicks < MaxTicks
    /\ nTicks' = nTicks + 1
    /\ now' = now + d
    /\ UNCHANGED <<active, failures, lockedUntil, nextJti, req,
                   uses, rotated, failLog>>
    /\ UNCHANGED <<tmuxVars, op, conn, tun, sweeper>>

InitAuth ==
    /\ active = {}
    /\ failures = <<>>
    /\ lockedUntil = None
    /\ now = 0
    /\ nextJti = 1
    /\ req = [s \in Slots |-> IdleReq]
    /\ nTicks = 0
    /\ uses = [j \in Jtis |-> 0]
    /\ rotated = {}
    /\ failLog = <<>>

\* ----------------------------------------------------------- app/core/tmux
\* Strings (session ids, names, tmux output lines) are sequences of tokens.
MaxOps == 1          \* TmuxManager calls in progress at the same time
MaxWall == 2         \* hours the wall clock runs

Ops == 1..MaxOps
\* terminal connections: a connection shares nothing with another one but
\* the tmux server, which ExtKill changes under it as well
Conns == {"c1"}

Prefix == <<"arc4de", "-">>
GenIds == {<<"a1">>, <<"b2">>}            \* values of uuid4().hex[:12]
UnknownId == <<"zz">>                     \* an id the gateway never made
DisplayNames == {<<"work">>}
\* sessions made outside the gateway: one without the prefix at its start,
\* one with it
ForeignNames == {<<"my", "arc4de", "-", "a1">>, Prefix \o UnknownId}
\* the order tmux lists sessions in
NameOrder == <<Prefix \o <<"a1">>, Prefix \o <<"b2">>, Prefix \o UnknownId,
               <<"my", "arc4de", "-", "a1">> >>

tmux_name_raw(session_id) == session_id
tmux_name(session_id) == Prefix \o session_id

\* str(n) of an attach count
str(n) == IF n = 0 THEN "0" ELSE IF n = 1 THEN "1" ELSE "2"

RECURSIVE split(_, _)
split(s, sep) ==
    IF \A i \in 1..Len(s) : s[i] # sep
    THEN <<s>>
    ELSE LET i == CHOOSE k \in 1..Len(s) :
                     s[k] = sep /\ \A j \in 1..(k - 1) : s[j] # sep
         IN  <<SubSeq(s, 1, i - 1)>> \o split(SubSeq(s, i + 1, Len(s)), sep)

startswith(s, p) == Len(s) >= Len(p) /\ SubSeq(s, 1, Len(p)) = p
removeprefix(s, p) ==
    IF startswith(s, p) THEN SubSeq(s, Len(p) + 1, Len(s)) ELSE s

\* clients the tmux server counts on a session: those from outside and the
\* gateway's own attach processes
session_attached(name) ==
    tmux[name] + Cardinality({c \in Conns : /\ conn[c].proc = "running"
                                            /\ tmux_name(conn[c].sid) = name})

\* the tmux commands _run_tmux runs: return code, output and the server after
tmux_new_session(name, ok) ==
    IF ok /\ name \notin DOMAIN tmux
    THEN [rc |-> 0, tmux |-> [n \in DOMAIN tmux \cup {name} |->
                                 IF n = name THEN 0 ELSE tmux[n]]]
    ELSE [rc |-> 1, tmux |-> tmux]

\* "#{session_name}:#{session_attached}", one line per session
tmux_list_sessions ==
    LET IsLive(n) == n \in DOMAIN tmux
        live == SelectSeq(NameOrder, IsLive)
    IN  [rc |-> IF live = <<>> THEN 1 ELSE 0,
         stdout |-> [i \in 1..Len(live) |->
                        live[i] \o <<":", str(session_attached(live[i]))>>]]

tmux_has_session(name) == [rc |-> IF name \in DOMAIN tmux THEN 0 ELSE 1]

tmux_kill_session(name) ==
    IF name \in DOMAIN tmux
    THEN [rc |-> 0, tmux |-> [n \in DOMAIN tmux \ {name} |-> tmux[n]]]
    ELSE [rc |-> 1, tmux |-> tmux]

SessionInfo(session_id, name, tname, state, created_at) ==
    [session_id |-> session_id, name |-> name, tmux_name |-> tname,
     state |-> state, created_at |-> created_at]

\* list_sessions(), lines 87-112: the loop over the output lines
RECURSIVE list_sessions_unfiltered(_, _)
list_sessions_unfiltered(lines, reg) ==
    IF lines = <<>> THEN <<>>
    ELSE LET parts == split(Head(lines), ":")
             rest == list_sessions_unfiltered(Tail(lines), reg)
         IN  IF Len(parts) < 2 THEN rest
             ELSE LET session_id == removeprefix(parts[1], Prefix)
                      has == session_id \in DOMAIN reg
                  IN  <<SessionInfo(
                          session_id,
                          IF has THEN reg[session_id].name ELSE session_id,
                          parts[1],
                          IF parts[2] # <<"0">> THEN "active" ELSE "detached",
                          IF has THEN reg[session_id].created_at ELSE <<>>)>>
                      \o rest
RECURSIVE parse_sessions(_, _)
parse_sessions(lines, reg) ==
    IF lines = <<>> THEN <<>>
    ELSE LET parts == split(Head(lines), ":")
             rest == parse_sessions(Tail(lines), reg)
         IN  IF Len(parts) < 2 THEN rest
             ELSE IF ~startswith(parts[1], Prefix) THEN rest
             ELSE LET session_id == removeprefix(parts[1], Prefix)
                      has == session_id \in DOMAIN reg
                  IN  <<SessionInfo(
                          session_id,
                          IF has THEN reg[session_id].name ELSE session_id,
                          parts[1],
                          IF parts[2] # <<"0">> THEN "active" ELSE "detached",
                          IF has THEN reg[session_id].created_at ELSE <<>>)>>
                      \o rest

list_sessions(rc, stdout, reg) ==
    IF rc # 0 \/ stdout = <<>> THEN <<>> ELSE parse_sessions(stdout, reg)

session_exists(session_id) == tmux_has_session(tmux_name(session_id)).rc = 0

NoInfo == SessionInfo(<<>>, <<>>, <<>>, "", <<>>)
IdleOp == [pc |-> "idle", kind |-> "none", id |-> <<>>, name |-> <<>>,
           at |-> <<>>, rc |-> 0, stdout |-> <<>>, live |-> {},
           result |-> "none", info |-> NoInfo, listing |-> <<>>,
           found |-> FALSE, ttl |-> 0, cutoff |-> 0, todo |-> <<>>,
           removed |-> <<>>, tried |-> {},
           route |-> "none", authz |-> <<>>, status |-> 0]

\* the ids a caller can name: those handed out, and one never handed out
KnownIds == usedIds \cup {UnknownId}

\* create_session(name), lines 59-67: the id, the time, tmux new-session
CreateCmd(o, name, ok) ==
    /\ op[o].pc = "idle"
    /\ \E session_id \in GenIds \ usedIds :
          LET run == tmux_new_session(tmux_name(session_id), ok)
          IN  /\ usedIds' = usedIds \cup {session_id}
              /\ tmux' = run.tmux
              /\ op' = [op EXCEPT ![o] = [IdleOp EXCEPT
                          !.pc = "create_ret", !.kind = "create",
                          !.id = session_id, !.name = name,
                          !.at = <<wall>>, !.rc = run.rc,
                          !.live = DOMAIN run.tmux]]
    /\ UNCHANGED <<authVars, registry, wall, conn, tun, sweeper>>

\* create_session, lines 65-66: new-session failed
create_failed_never(rc) == FALSE
create_failed(rc) == rc # 0

\* create_session, lines 65-76
CreateRet(o) ==
    /\ op[o].pc = "create_ret"
    /\ IF create_failed(op[o].rc)
       THEN /\ op' = [op EXCEPT ![o].pc = "done",
                                ![o].result = "RuntimeError"]
            /\ UNCHANGED registry
       ELSE /\ registry' =
                  [i \in DOMAIN registry \cup {op[o].id} |->
                      IF i = op[o].id
                      THEN [name |-> op[o].name, created_at |-> op[o].at]
                      ELSE registry[i]]
            /\ op' = [op EXCEPT ![o].pc = "done", ![o].result = "ok",
                         ![o].info = SessionInfo(op[o].id, op[o].name,
                                         tmux_name(op[o].id), "detached",
                                         op[o].at)]
    /\ UNCHANGED <<authVars, tmux, usedIds, wall, conn, tun, sweeper>>

\* list_sessions(), lines 80-83: tmux list-sessions
list_cmd ==
    LET run == tmux_list_sessions
    IN  [IdleOp EXCEPT !.pc = "list_ret", !.kind = "list", !.rc = run.rc,
                       !.stdout = run.stdout, !.live = DOMAIN tmux]

ListCmd(o) ==
    /\ op[o].pc = "idle"
    /\ op' = [op EXCEPT ![o] = list_cmd]
    /\ UNCHANGED <<authVars, tmuxVars, conn, tun, sweeper>>

\* list_sessions(), lines 84-112
ListRet(o) ==
    /\ op[o].pc = "list_ret"
    /\ op' = [op EXCEPT ![o].pc = "done", ![o].result = "ok",
                 ![o].listing = list_sessions(op[o].rc, op[o].stdout,
                                              registry)]
    /\ UNCHANGED <<authVars, tmuxVars, conn, tun, sweeper>>

\* session_exists(session_id), lines 114-118
SessionExists(o, session_id) ==
    /\ op[o].pc = "idle"
    /\ op' = [op EXCEPT ![o] = [IdleOp EXCEPT
                 !.pc = "done", !.kind = "exists", !.id = session_id,
                 !.result = "ok", !.found = session_exists(session_id)]]
    /\ UNCHANGED <<authVars, tmuxVars, conn, tun, sweeper>>

\* kill_session(session_id), lines 122-123: the existence probe
kill_probe(session_id) ==
    IF ~session_exists(session_id)
    THEN [IdleOp EXCEPT !.pc = "done", !.kind = "kill", !.id = session_id,
                        !.live = DOMAIN tmux, !.result = "ValueError"]
    ELSE [IdleOp EXCEPT !.pc = "kill_cmd", !.kind = "kill",
                        !.id = session_id, !.live = DOMAIN tmux]

KillProbe(o, session_id) ==
    /\ op[o].pc = "idle"
    /\ op' = [op EXCEPT ![o] = kill_probe(session_id)]
    /\ UNCHANGED <<authVars, tmuxVars, conn, tun, sweeper>>

\* kill_session, lines 125-126: tmux kill-session
KillCmd(o) ==
    /\ op[o].pc = "kill_cmd"
    /\ LET run == tmux_kill_session(tmux_name(op[o].id))
       IN  /\ tmux' = run.tmux
           /\ op' = [op EXCEPT ![o].pc = "kill_ret", ![o].rc = run.rc,
                                   ![o].live = DOMAIN run.tmux]
    /\ UNCHANGED <<authVars, registry, usedIds, wall, conn, tun, sweeper>>

\* kill_session, lines 127-130
KillRet(o) ==
    /\ op[o].pc = "kill_ret"
    /\ IF op[o].rc # 0
       THEN /\ op' = [op EXCEPT ![o].pc = "done",
                                ![o].result = "RuntimeError"]
            /\ UNCHANGED registry
       ELSE /\ registry' = [i \in DOMAIN registry \ {op[o].id} |->
                               registry[i]]
            /\ op' = [op EXCEPT ![o].pc = "done", ![o].result = "ok"]
    /\ UNCHANGED <<authVars, tmux, usedIds, wall, conn, tun, sweeper>>

\* hours a sweep is asked to keep sessions for
TtlHours == {1}

\* cleanup_expired_sessions, lines 167-172: is this session due?
is_expired_or_undated(created_str, cutoff) ==
    IF created_str = <<>> THEN TRUE ELSE created_str[1] < cutoff
is_expired(created_str, cutoff) ==
    IF created_str = <<>> THEN FALSE ELSE created_str[1] < cutoff

\* lines 176-177, `except Exception: pass`: what is left of the loop after
\* kill_session raised for the head of todo
after_kill_error_aborts(todo) == <<>>
after_kill_error(todo) == Tail(todo)

\* cleanup_expired_sessions(ttl_hours), lines 160-164: the cutoff, then the
\* list-sessions command of list_sessions()
SweepCmd(o, ttl_hours) ==
    /\ op[o].pc = "idle"
    /\ LET run == tmux_list_sessions
       IN  op' = [op EXCEPT ![o] = [IdleOp EXCEPT
                     !.pc = "sweep_list", !.kind = "sweep",
                     !.ttl = ttl_hours, !.at = <<wall>>,
                     !.cutoff = wall - ttl_hours, !.rc = run.rc,
                     !.stdout = run.stdout, !.live = DOMAIN tmux]]
    /\ UNCHANGED <<authVars, tmuxVars, conn, tun, sweeper>>

\* line 164: list_sessions() returns
SweepListed(o) ==
    /\ op[o].pc = "sweep_list"
    /\ LET sessions == list_sessions(op[o].rc, op[o].stdout, registry)
       IN  op' = [op EXCEPT ![o].pc = "sweep_loop", ![o].listing = sessions,
                               ![o].todo = sessions]
    /\ UNCHANGED <<authVars, tmuxVars, conn, tun, sweeper>>

\* lines 165-172: is the session of this turn of the loop handed to
\* kill_session? session is the SessionInfo list_sessions made for it
sweep_due_spares_attached(session, created_str, cutoff) ==
    session.state # "active" /\ is_expired(created_str, cutoff)
sweep_due(session, created_str, cutoff) == is_expired(created_str, cutoff)

\* lines 165-173 and 122-123: the next session of the loop; one that is due
\* is handed to kill_session, whose probe answers
SweepNext(o) ==
    /\ op[o].pc = "sweep_loop"
    /\ op[o].todo # <<>>
    /\ LET session == Head(op[o].todo)
           created_str == IF session.session_id \in DOMAIN registry
                          THEN registry[session.session_id].created_at
                          ELSE <<>>
       IN  IF ~sweep_due(session, created_str, op[o].cutoff)
           THEN op' = [op EXCEPT ![o].todo = Tail(@)]
           ELSE IF ~session_exists(session.session_id)
           THEN op' = [op EXCEPT ![o].todo = after_kill_error(@),
                          ![o].tried = @ \cup {session.session_id}]
           ELSE op' = [op EXCEPT ![o].pc = "sweep_kill",
                          ![o].id = session.session_id,
                          ![o].tried = @ \cup {session.session_id}]
    /\ UNCHANGED <<authVars, tmuxVars, conn, tun, sweeper>>

\* kill_session, lines 125-126, called from line 173
SweepKillCmd(o) ==
    /\ op[o].pc = "sweep_kill"
    /\ LET run == tmux_kill_session(tmux_name(op[o].id))
       IN  /\ tmux' = run.tmux
           /\ op' = [op EXCEPT ![o].pc = "sweep_kill_ret", ![o].rc = run.rc]
    /\ UNCHANGED <<authVars, registry, usedIds, wall, conn, tun, sweeper>>

\* kill_session, lines 127-130, then lines 174-176
SweepKillRet(o) ==
    /\ op[o].pc = "sweep_kill_ret"
    /\ IF op[o].rc # 0
       THEN /\ op' = [op EXCEPT ![o].pc = "sweep_loop",
                                   ![o].todo = after_kill_error(@)]
            /\ UNCHANGED registry
       ELSE /\ registry' = [i \in DOMAIN registry \ {op[o].id} |->
                               registry[i]]
            /\ op' = [op EXCEPT ![o].pc = "sweep_loop", ![o].todo = Tail(@),
                                   ![o].removed = Append(@, op[o].id)]
    /\ UNCHANGED <<authVars, tmux, usedIds, wall, conn, tun, sweeper>>

\* line 178: return removed
SweepRet(o) ==
    /\ op[o].pc = "sweep_loop"
    /\ op[o].todo = <<>>
    /\ op' = [op EXCEPT ![o].pc = "done", ![o].result = "ok"]
    /\ UNCHANGED <<authVars, tmuxVars, conn, tun, sweeper>>

\* an hour passes
WallTick ==
    /\ wall < MaxWall
    /\ wall' = wall + 1
    /\ UNCHANGED <<authVars, tmux, registry, usedIds, op, conn, tun, sweeper>>

\* ------------------------------------------------- app/main: _cleanup_loop
\* config.py, lines 7-17: the fields of Settings
SettingsFields == {"jwt_secret", "jwt_access_expiry_minutes",
                   "jwt_refresh_expiry_days", "auth_password",
                   "allowed_origins", "backend_port"}

Min(S) == CHOOSE x \in S : \A y \in S : x <= y

\* tmux.py, line 160: the ttl cleanup_expired_sessions works with; reading
\* a field Settings does not have raises AttributeError
cleanup_ttl(ttl_hours) ==
    IF ttl_hours # None THEN [ok |-> TRUE, ttl |-> ttl_hours]
    ELSE IF "session_ttl_hours" \in SettingsFields
    THEN [ok |-> TRUE, ttl |-> Min(TtlHours)]
    ELSE [ok |-> FALSE, err |-> "AttributeError"]

\* main.py, line 74: what `except Exception` catches
caught_runtime_only(err) == err = "RuntimeError"
caught(err) == err # "CancelledError"

\* the task starts in its first sleep, line 69
InitSweeper == [pc |-> "sleep", due |-> 1, iters |-> 0, failed |-> 0,
                swept |-> 0, propagated |-> "none"]

\* _cleanup_loop, lines 69-75: the sleep is over and the iteration runs to
\* its next wait: to the listing of the sweep, or, when the call raises
\* before it waits for anything, through the except clause and into the
\* next sleep; and, the sweep over, line 72 and the next sleep
SweeperStep ==
    /\ \/ sweeper.pc = "sleep" /\ wall >= sweeper.due
       \/ sweeper.pc = "sweeping" /\ op[1].kind = "sweep" /\ op[1].pc = "done"
    /\ IF sweeper.pc = "sweeping"
       THEN /\ sweeper' = [sweeper EXCEPT !.pc = "sleep", !.due = wall + 1,
                              !.iters = @ + 1, !.swept = @ + 1]
            /\ op' = [op EXCEPT ![1] = IdleOp]
       ELSE LET t == cleanup_ttl(None)
            IN  IF t.ok
                THEN /\ op[1].pc = "idle"
                     /\ LET run == tmux_list_sessions
                        IN  op' = [op EXCEPT ![1] = [IdleOp EXCEPT
                                  !.pc = "sweep_list", !.kind = "sweep",
                                  !.ttl = t.ttl, !.at = <<wall>>,
                                  !.cutoff = wall - t.ttl, !.rc = run.rc,
                                  !.stdout = run.stdout,
                                  !.live = DOMAIN tmux]]
                     /\ sweeper' = [sweeper EXCEPT !.pc = "sweeping"]
                ELSE /\ op' = op
                     /\ sweeper' =
                           IF caught(t.err)
                           THEN [sweeper EXCEPT !.due = wall + 1,
                                    !.iters = @ + 1, !.failed = @ + 1]
                           ELSE [sweeper EXCEPT !.pc = "dead",
                                    !.propagated = t.err]
    /\ UNCHANGED <<authVars, tmuxVars, conn, tun>>

\* main.py, lines 53-57: shutdown cancels the task
SweeperCancel ==
    /\ sweeper.pc \in {"sleep", "sweeping"}
    /\ sweeper' = [sweeper EXCEPT !.pc = "cancelled"]
    /\ UNCHANGED <<authVars, tmuxVars, op, conn, tun>>

\* the caller has the result; the slot is free again
Return(o) ==
    /\ op[o].pc = "done"
    /\ op' = [op EXCEPT ![o] = IdleOp]
    /\ UNCHANGED <<authVars, tmuxVars, conn, tun, sweeper>>

\* the tmux server is shared with the host's users
ExtCreate(name) ==
    /\ name \in ForeignNames \ DOMAIN tmux
    /\ tmux' = tmux_new_session(name, TRUE).tmux
    /\ UNCHANGED <<authVars, registry, usedIds, wall, op, conn, tun, sweeper>>

ExtKill(name) ==
    /\ name \in DOMAIN tmux
    /\ tmux' = tmux_kill_session(name).tmux
    /\ UNCHANGED <<authVars, registry, usedIds, wall, op, conn, tun, sweeper>>

\* --------------------------------------------------------- app/ws/terminal
MaxChunks == 2       \* chunks the pty reader reads on one connection
MaxFrames == 2       \* frames a peer sends on one connection after its auth

AUTH_TIMEOUT_SECONDS == 30
NoCode == 0          \* the handler has not closed the connection

get(raw, key, default) == IF key \in DOMAIN raw THEN raw[key] ELSE default

AuthFail(reason) == [type |-> "auth.fail", reason |-> reason]
ErrorFrame(message) == [type |-> "error", message |-> message]
AuthOk == [type |-> "auth.ok"]
Output(data) == [type |-> "output", data |-> data]
NoFrame == [type |-> "none"]

\* the first message a client sends after connecting
FirstMsgs ==
    {[type |-> "input", data |-> <<"ls">>],
     [type |-> "ping", token |-> AccessToken],
     [type |-> "auth"],
     [type |-> "auth", token |-> EmptyToken],
     [type |-> "auth", token |-> GarbageToken],
     [type |-> "auth", token |-> ExpiredAccessToken],
     [type |-> "auth", token |-> RefreshToken(1)],
     [type |-> "auth", token |-> GarbageToken, session_id |-> UnknownId],
     [type |-> "auth", token |-> AccessToken],
     [type |-> "auth", token |-> AccessToken, session_id |-> <<>>]}
    \cup {[type |-> "auth", token |-> AccessToken, session_id |-> i] :
             i \in KnownIds}

IdleConn == [pc |-> "idle", first |-> NoFrame, waited |-> 0,
             sid |-> <<>>, probed |-> "none", made |-> FALSE, rc |-> 0,
             master |-> "none", slave |-> "none", proc |-> "none",
             reader |-> "none", readerEnd |-> "none", nOut |-> 0,
             reads |-> <<>>, held |-> <<>>, recv |-> <<>>, written |-> <<>>,
             writing |-> {}, recent |-> <<>>,
             tmux_name |-> <<>>, cmds |-> {}, worker |-> "idle",
             winsize |-> <<0, 0>>,
             sent |-> <<>>, code |-> NoCode, raised |-> "none",
             exit |-> "none", tdLog |-> <<>>, tdErr |-> {}]

\* terminal_handler, lines 52-68: the checks of the first message
auth_phase_shared_code(raw) ==
    IF get(raw, "type", "") # "auth"
    THEN [ok |-> FALSE, frame |-> AuthFail("Expected auth message"),
          code |-> 4002]
    ELSE LET token == get(raw, "token", EmptyToken)
         IN  IF token = EmptyToken
             THEN [ok |-> FALSE, frame |-> AuthFail("Missing token"),
                   code |-> 4004]
             ELSE IF ~decode_access_token(token).ok
             THEN [ok |-> FALSE,
                   frame |-> AuthFail("Invalid or expired token"),
                   code |-> 4004]
             ELSE [ok |-> TRUE, frame |-> NoFrame, code |-> NoCode]
auth_phase_trusts_token(raw) ==
    IF get(raw, "type", "") # "auth"
    THEN [ok |-> FALSE, frame |-> AuthFail("Expected auth message"),
          code |-> 4002]
    ELSE IF get(raw, "token", EmptyToken) = EmptyToken
    THEN [ok |-> FALSE, frame |-> AuthFail("Missing token"), code |-> 4003]
    ELSE [ok |-> TRUE, frame |-> NoFrame, code |-> NoCode]
auth_phase(raw) ==
    IF get(raw, "type", "") # "auth"
    THEN [ok |-> FALSE, frame |-> AuthFail("Expected auth message"),
          code |-> 4002]
    ELSE LET token == get(raw, "token", EmptyToken)
         IN  IF token = EmptyToken
             THEN [ok |-> FALSE, frame |-> AuthFail("Missing token"),
                   code |-> 4003]
             ELSE IF ~decode_access_token(token).ok
             THEN [ok |-> FALSE,
                   frame |-> AuthFail("Invalid or expired token"),
                   code |-> 4004]
             ELSE [ok |-> TRUE, frame |-> NoFrame, code |-> NoCode]

\* lines 73-82: where the handler goes once it knows whether the session
\* it was asked for exists
after_probe_creates(exists) == IF ~exists THEN "create" ELSE "attach"
after_probe(exists) == IF ~exists THEN "not_found" ELSE "attach"

\* lines 116-127: the exceptions each teardown step's except clause catches
swallowed_but_close(step, err) ==
    \/ step = "await" /\ err = "CancelledError"
    \/ step = "kill" /\ err = "ProcessLookupError"
swallowed(step, err) ==
    \/ step = "await" /\ err = "CancelledError"
    \/ step = "close" /\ err = "OSError"
    \/ step = "kill" /\ err = "ProcessLookupError"

\* what each teardown step can raise
Raises(step) ==
    CASE step = "await" -> {"none", "CancelledError"}
      [] step = "close" -> {"none", "OSError"}
      [] OTHER -> {"none"}

NotTerm == UNCHANGED <<authVars, op, sweeper>>
NotTun == UNCHANGED tun

\* line 38: websocket.accept()
Connect(c) ==
    /\ conn[c].pc = "idle"
    /\ conn' = [conn EXCEPT ![c].pc = "await_auth"]
    /\ UNCHANGED tmuxVars /\ NotTerm /\ NotTun

\* lines 43-48: no first message within AUTH_TIMEOUT_SECONDS
AuthTimeout(c) ==
    /\ conn[c].pc = "await_auth"
    /\ conn' = [conn EXCEPT ![c].pc = "done",
                   ![c].waited = AUTH_TIMEOUT_SECONDS,
                   ![c].sent = Append(@, AuthFail("Auth timeout")),
                   ![c].code = 4001]
    /\ UNCHANGED tmuxVars /\ NotTerm /\ NotTun

\* lines 49-50: the peer left before sending anything
DisconnectInAuth(c) ==
    /\ conn[c].pc = "await_auth"
    /\ conn' = [conn EXCEPT ![c].pc = "done"]
    /\ UNCHANGED tmuxVars /\ NotTerm /\ NotTun

\* lines 52-73 and 79: the first message arrived
RecvFirst(c, raw) ==
    /\ conn[c].pc = "await_auth"
    /\ LET a == auth_phase(raw)
           session_id == get(raw, "session_id", <<>>)
       IN  IF ~a.ok
           THEN conn' = [conn EXCEPT ![c].pc = "done", ![c].first = raw,
                            ![c].sent = Append(@, a.frame),
                            ![c].code = a.code]
           ELSE conn' = [conn EXCEPT ![c].first = raw,
                            ![c].sid = session_id,
                            ![c].pc = IF session_id # <<>> THEN "probe"
                                      ELSE "create"]
    /\ UNCHANGED tmuxVars /\ NotTerm /\ NotTun

\* lines 75-78: session_exists(session_id), and the error when it does not
Probe(c) ==
    /\ conn[c].pc = "probe"
    /\ LET exists == session_exists(conn[c].sid)
           goes == after_probe(exists)
       IN  CASE goes = "not_found" ->
                  conn' = [conn EXCEPT ![c].pc = "done",
                     ![c].probed = IF exists THEN "found" ELSE "missing",
                     ![c].sent = Append(@, ErrorFrame(
                         <<"Session ">> \o conn[c].sid \o <<" not found">>)),
                     ![c].code = 4005]
             [] goes = "attach" ->
                  conn' = [conn EXCEPT ![c].pc = "open_pty",
                     ![c].probed = IF exists THEN "found" ELSE "missing"]
             [] OTHER ->
                  conn' = [conn EXCEPT ![c].pc = "create",
                     ![c].probed = IF exists THEN "found" ELSE "missing"]
    /\ UNCHANGED tmuxVars /\ NotTerm /\ NotTun

\* line 81: create_session("terminal") up to its tmux new-session
ConnCreateCmd(c, ok) ==
    /\ conn[c].pc = "create"
    /\ \E session_id \in GenIds \ usedIds :
          LET run == tmux_new_session(tmux_name(session_id), ok)
          IN  /\ usedIds' = usedIds \cup {session_id}
              /\ tmux' = run.tmux
              /\ conn' = [conn EXCEPT ![c].pc = "create_ret",
                             ![c].sid = session_id, ![c].rc = run.rc]
    /\ UNCHANGED <<registry, wall>> /\ NotTerm /\ NotTun

\* lines 81-82: create_session returns or raises
ConnCreateRet(c) ==
    /\ conn[c].pc = "create_ret"
    /\ IF conn[c].rc # 0
       THEN /\ conn' = [conn EXCEPT ![c].pc = "done",
                                    ![c].raised = "RuntimeError"]
            /\ UNCHANGED registry
       ELSE /\ registry' =
                  [i \in DOMAIN registry \cup {conn[c].sid} |->
                      IF i = conn[c].sid
                      THEN [name |-> <<"terminal">>, created_at |-> <<wall>>]
                      ELSE registry[i]]
            /\ conn' = [conn EXCEPT ![c].pc = "open_pty", ![c].made = TRUE]
    /\ UNCHANGED <<tmux, usedIds, wall>> /\ NotTerm /\ NotTun

\* a tmux command the handler spawns itself, and its -t argument
Cmd(cmd, target) == [cmd |-> cmd, target |-> target]

\* lines 84-98: the tmux name, pty.openpty(), then the attach process is
\* spawned or the spawn raises
OpenPtySpawn(c, spawned) ==
    /\ conn[c].pc = "open_pty"
    /\ LET name == tmux_name(conn[c].sid)
       IN  IF spawned
           THEN conn' = [conn EXCEPT ![c].pc = "spawned",
                            ![c].tmux_name = name,
                            ![c].master = "open", ![c].slave = "open",
                            ![c].proc = "running",
                            ![c].cmds = @ \cup {Cmd("attach-session", name)}]
           ELSE conn' = [conn EXCEPT ![c].pc = "done",
                            ![c].tmux_name = name,
                            ![c].master = "open", ![c].slave = "open",
                            ![c].raised = "OSError"]
    /\ UNCHANGED tmuxVars /\ NotTerm /\ NotTun

\* lines 99-108: the slave end is closed, auth.ok sent, the reader started;
\* the reader hands _blocking_read to the executor (line 140), where a
\* worker thread runs it
AfterSpawn(c) ==
    /\ conn[c].pc = "spawned"
    /\ conn' = [conn EXCEPT ![c].pc = "bridging", ![c].slave = "closed",
                   ![c].sent = Append(@, AuthOk), ![c].reader = "running",
                   ![c].worker = "reading"]
    /\ UNCHANGED tmuxVars /\ NotTerm /\ NotTun

\* the attach process ends by itself: its session was killed, or the user
\* detached
AttachExits(c) ==
    /\ conn[c].proc = "running"
    /\ conn' = [conn EXCEPT ![c].proc = "exited"]
    /\ UNCHANGED tmuxVars /\ NotTerm /\ NotTun

\* what the pty hands to one read: bytes, among them the two bytes of a
\* two-byte UTF-8 character, together or cut apart by the end of the read
Chunks == {<<"l", "s">>, <<"C3", "A9">>, <<"C3">>, <<"A9">>}

\* data.decode("utf-8", errors="replace"), line 146
RECURSIVE decode(_)
decode(data) ==
    IF data = <<>> THEN <<>>
    ELSE IF Head(data) = "C3" /\ Len(data) >= 2 /\ data[2] = "A9"
    THEN <<"e-acute">> \o decode(SubSeq(data, 3, Len(data)))
    ELSE IF Head(data) \in {"C3", "A9"}
    THEN <<"U+FFFD">> \o decode(Tail(data))
    ELSE <<Head(data)>> \o decode(Tail(data))

\* websocket.send_json: the frame goes out after those sent before it
emit(sent, frame) == Append(sent, frame)

\* ------------------------------------------------ app/core/tunnel (preview)
MaxTasks == 2        \* preview tasks created in one run

RecentKept == 1024   \* line 152: recent_output[-1024:]

\* the ports a line of output names, 0 where it names none
PortOf(unit) ==
    CASE unit = "listening on 3000" -> 3000
      [] unit = "listening on 8000" -> 8000
      [] OTHER -> 0

DEFAULT_IGNORE_PORTS == {8000}

\* the last n elements of seq
LastOf(seq, n) ==
    IF Len(seq) <= n THEN seq ELSE SubSeq(seq, Len(seq) - n + 1, Len(seq))

\* detect_server_port, lines 29-49, for the pattern "listening on <port>":
\* the first match decides; 0 stands for None
detect_server_port(output) ==
    LET hits == {i \in DOMAIN output : PortOf(output[i]) # 0}
    IN  IF hits = {} THEN 0
        ELSE LET first == CHOOSE i \in hits : \A j \in hits : i <= j
                 port == PortOf(output[first])
             IN  IF port \notin DEFAULT_IGNORE_PORTS THEN port ELSE 0

\* the url cloudflared process n prints: every process gets its own
Url(n) == <<"https://", n, ".trycloudflare.com">>
NoUrl == <<>>

InitTun == [preview_tunnels |-> << >>, preview_urls |-> << >>,
            procs |-> <<>>, tasks |-> <<>>]

\* _pty_reader, lines 149-159, on the text of a chunk: the buffer that is
\* scanned, and the port a preview task is created for (0: none)
scan(c, text) ==
    LET recent_output == LastOf(conn[c].recent \o text, RecentKept)
        port == detect_server_port(recent_output)
    IN  [recent |-> recent_output,
         port |-> IF port # 0 /\ port \notin DOMAIN tun.preview_urls
                  THEN port ELSE 0]

\* lines 157-159: asyncio.create_task(_start_preview_and_notify(...))
create_task(c, port) ==
    IF port = 0 THEN tun
    ELSE [tun EXCEPT !.tasks = Append(@, [conn |-> c, port |-> port,
                                           pc |-> "new", proc |-> 0,
                                           url |-> NoUrl])]

\* the connection after _start_preview_and_notify got url from
\* start_preview_tunnel, lines 176-184: a tunnel.preview frame through
\* _send when there is a url, and nothing otherwise
after_preview_raises(rec, port, url) ==
    IF url = NoUrl
    THEN [rec EXCEPT !.reader = "ended", !.readerEnd = "error"]
    ELSE [rec EXCEPT !.sent = Append(@, [type |-> "tunnel.preview",
                                         port |-> port, url |-> url])]
after_preview(rec, port, url) ==
    IF url = NoUrl \/ rec.pc \in {"idle", "done"} THEN rec
    ELSE [rec EXCEPT !.sent = Append(@, [type |-> "tunnel.preview",
                                         port |-> port, url |-> url])]

\* start_preview_tunnel, lines 177-188: up to the wait for the url.
\* available: shutil.which finds cloudflared; spawned: Popen does not raise
PreviewStart(t, available, spawned) ==
    /\ t \in DOMAIN tun.tasks
    /\ tun.tasks[t].pc = "new"
    /\ LET c == tun.tasks[t].conn
           port == tun.tasks[t].port
       IN  IF ~available
           THEN /\ tun' = [tun EXCEPT !.tasks[t].pc = "done"]
                /\ conn' = [conn EXCEPT ![c] = after_preview(@, port, NoUrl)]
           ELSE IF port \in DOMAIN tun.preview_tunnels
           THEN LET url == IF port \in DOMAIN tun.preview_urls
                           THEN tun.preview_urls[port] ELSE NoUrl
                IN  /\ tun' = [tun EXCEPT !.tasks[t].pc = "done",
                                          !.tasks[t].url = url]
                    /\ conn' = [conn EXCEPT ![c] = after_preview(@, port, url)]
           ELSE IF ~spawned
           THEN /\ tun' = [tun EXCEPT !.tasks[t].pc = "done"]
                /\ conn' = [conn EXCEPT ![c] = after_preview(@, port, NoUrl)]
           ELSE /\ tun' = [tun EXCEPT
                            !.procs = Append(@, [port |-> port,
                                                 state |-> "running"]),
                            !.tasks[t].pc = "reading",
                            !.tasks[t].proc = Len(tun.procs) + 1]
                /\ conn' = conn
    /\ UNCHANGED tmuxVars /\ NotTerm

\* start_preview_tunnel, lines 190-199, and _start_preview_and_notify,
\* lines 177-182: _read_tunnel_url is back, with the url or without
PreviewRead(t, got) ==
    /\ t \in DOMAIN tun.tasks
    /\ tun.tasks[t].pc = "reading"
    /\ LET c == tun.tasks[t].conn
           port == tun.tasks[t].port
           n == tun.tasks[t].proc
       IN  IF got
           THEN /\ tun' = [tun EXCEPT
                            !.preview_tunnels = (port :> n) @@ @,
                            !.preview_urls = (port :> Url(n)) @@ @,
                            !.tasks[t].pc = "done",
                            !.tasks[t].url = Url(n)]
                /\ conn' = [conn EXCEPT ![c] = after_preview(@, port, Url(n))]
           ELSE /\ tun' = [tun EXCEPT !.procs[n].state = "terminated",
                                      !.tasks[t].pc = "done"]
                /\ conn' = [conn EXCEPT ![c] = after_preview(@, port, NoUrl)]
    /\ UNCHANGED tmuxVars /\ NotTerm

\* _pty_reader, lines 140-144, _blocking_read: a read returns a chunk
ReaderRead(c, data) ==
    /\ conn[c].pc = "bridging"
    /\ conn[c].reader = "running"
    /\ conn[c].proc = "running"
    /\ conn[c].held = <<>>
    /\ Len(conn[c].reads) < MaxChunks
    /\ conn' = [conn EXCEPT ![c].reads = Append(@, data), ![c].held = data,
                            ![c].worker = "idle"]
    /\ UNCHANGED tmuxVars /\ NotTerm /\ NotTun

\* _pty_reader, lines 146-164: the chunk is decoded and sent as an output
\* frame
ReaderOutput(c) ==
    /\ conn[c].pc = "bridging"
    /\ conn[c].reader = "running"
    /\ conn[c].held # <<>>
    /\ LET text == decode(conn[c].held)
           found == scan(c, text)
       IN  /\ found.port # 0 => Len(tun.tasks) < MaxTasks
           /\ tun' = create_task(c, found.port)
           /\ conn' = [conn EXCEPT ![c].nOut = @ + 1, ![c].held = <<>>,
                          ![c].recent = found.recent,
                          ![c].sent = emit(@, Output(text)),
                          ![c].worker = "reading"]
    /\ UNCHANGED tmuxVars /\ NotTerm

\* frames a peer sends after its auth
PingFrame == [type |-> "ping"]
InputFrame == [type |-> "input", data |-> <<"l", "s">>]
ResizeFrame == [type |-> "resize", cols |-> 80, rows |-> 24]
UnknownFrames == {[type |-> "bogus"], [data |-> <<"l", "s">>]}
Frames == {PingFrame, InputFrame, ResizeFrame} \cup UnknownFrames
Pong == [type |-> "pong"]

\* _message_loop, lines 210-231: the frames sent in answer to msg
loop_reply_silent(msg) ==
    IF get(msg, "type", "None") = "ping" THEN <<Pong>> ELSE <<>>
loop_reply_no_pong(msg) ==
    LET msg_type == get(msg, "type", "None")
    IN  IF msg_type \in {"ping", "input", "resize"} THEN <<>>
        ELSE <<ErrorFrame(<<"Unknown message type: ", msg_type>>)>>
loop_reply(msg) ==
    LET msg_type == get(msg, "type", "None")
    IN  CASE msg_type = "ping" -> <<Pong>>
          [] msg_type = "input" -> <<>>
          [] msg_type = "resize" -> <<>>
          [] OTHER -> <<ErrorFrame(<<"Unknown message type: ", msg_type>>)>>

\* resize frames with other sizes, with a size that does not fit the
\* unsigned short of struct winsize, and without a size
ResizeFrames ==
    {ResizeFrame,
     [type |-> "resize", cols |-> 120, rows |-> 40],
     [type |-> "resize", cols |-> 70000, rows |-> 40],
     [type |-> "resize"]}

\* _resize_pty, lines 234-240: struct.pack("HHHH", rows, cols, 0, 0) raises
\* unless both fit 16 bits, and the exception is swallowed; winsize is the
\* pair <<rows, cols>> of the pty
packs(v) == v \in 0..65535
_resize_pty(winsize, rows, cols) ==
    IF packs(rows) /\ packs(cols) THEN <<rows, cols>> ELSE winsize

\* _resize_tmux, lines 243-250: tmux resize-window -t tmux_name -x cols -y rows
ResizeCmd(target, cols, rows) ==
    [cmd |-> "resize-window", target |-> target, x |-> cols, y |-> rows]

\* _message_loop, lines 220-225: the resize branch; what the pty and the
\* commands of the connection are afterwards
resize_gives_up_after_pty_failure(k, msg) ==
    LET cols == get(msg, "cols", 80)
        rows == get(msg, "rows", 24)
    IN  [winsize |-> _resize_pty(k.winsize, rows, cols),
         cmds |-> IF packs(rows) /\ packs(cols)
                  THEN k.cmds \cup {ResizeCmd(k.tmux_name, cols, rows)}
                  ELSE k.cmds]
resize(k, msg) ==
    LET cols == get(msg, "cols", 80)
        rows == get(msg, "rows", 24)
    IN  [winsize |-> _resize_pty(k.winsize, rows, cols),
         cmds |-> k.cmds \cup {ResizeCmd(k.tmux_name, cols, rows)}]

\* _message_loop, lines 204-231: one frame is received and handled. ok says
\* whether the system call the frame leads to goes through: os.write on a
\* pty whose attach process is gone, and the spawn of tmux resize-window,
\* can raise.
RecvFrame(c, msg, ok) ==
    /\ conn[c].pc = "bridging"
    /\ Len(conn[c].recv) < MaxFrames
    /\ LET msg_type == get(msg, "type", "None")
           data == get(msg, "data", <<>>)
           writes == msg_type = "input" /\ data # <<>>
           can_raise == \/ writes /\ conn[c].proc # "running"
                        \/ msg_type = "resize"
       IN  /\ ~ok => can_raise
           /\ IF ~ok
              THEN conn' = [conn EXCEPT ![c].recv = Append(@, msg),
                               ![c].winsize =
                                  IF msg_type = "resize"
                                  THEN resize(conn[c], msg).winsize ELSE @,
                               ![c].pc = "td_cancel", ![c].exit = "error"]
              ELSE conn' = [conn EXCEPT ![c].recv = Append(@, msg),
                               ![c].sent = @ \o loop_reply(msg),
                               ![c].written = IF writes THEN @ \o data
                                              ELSE @,
                               ![c].winsize =
                                  IF msg_type = "resize"
                                  THEN resize(conn[c], msg).winsize ELSE @,
                               ![c].cmds =
                                  IF msg_type = "resize"
                                  THEN resize(conn[c], msg).cmds ELSE @]
    /\ UNCHANGED tmuxVars /\ NotTerm /\ NotTun

\* A send_json call is a coroutine: it returns at once when the transport
\* takes the frame, and waits when the transport pushes back. The actions
\* above are the first case; these are the second, in two steps. The tasks
\* that call send_json on the websocket of one connection:
\*   "handler"  terminal_handler and _message_loop, through _send
\*   "reader"   _pty_reader, line 161
Writers == {"handler", "reader"}

\* _message_loop, lines 213 and 228-231: a frame is received and the send
\* of its answer waits
RecvFrameSendWaits(c, msg) ==
    /\ conn[c].pc = "bridging"
    /\ Len(conn[c].recv) < MaxFrames
    /\ loop_reply(msg) # <<>>
    /\ conn' = [conn EXCEPT ![c].recv = Append(@, msg),
                   ![c].pc = "loop_send",
                   ![c].writing = @ \cup {[task |-> "handler",
                                           frame |-> loop_reply(msg)[1]]}]
    /\ UNCHANGED tmuxVars /\ NotTerm /\ NotTun

\* _send, lines 255-256: the send of the handler returns
LoopSendReturns(c) ==
    /\ conn[c].pc = "loop_send"
    /\ \E w \in conn[c].writing :
          /\ w.task = "handler"
          /\ conn' = [conn EXCEPT ![c].pc = "bridging",
                         ![c].sent = emit(@, w.frame),
                         ![c].writing = @ \ {w}]
    /\ UNCHANGED tmuxVars /\ NotTerm /\ NotTun

\* _pty_reader, lines 146-164: the chunk is decoded and the send of its
\* output frame waits
ReaderSendWaits(c) ==
    /\ conn[c].pc \in {"bridging", "loop_send"}
    /\ conn[c].reader = "running"
    /\ conn[c].held # <<>>
    /\ LET text == decode(conn[c].held)
           found == scan(c, text)
       IN  /\ found.port # 0 => Len(tun.tasks) < MaxTasks
           /\ tun' = create_task(c, found.port)
           /\ conn' = [conn EXCEPT ![c].reader = "sending",
                          ![c].recent = found.recent,
                          ![c].writing = @ \cup {[task |-> "reader",
                                                  frame |-> Output(text)]}]
    /\ UNCHANGED tmuxVars /\ NotTerm

\* line 161: the send of the reader returns
ReaderSendReturns(c) ==
    /\ conn[c].reader = "sending"
    /\ \E w \in conn[c].writing :
          /\ w.task = "reader"
          /\ conn' = [conn EXCEPT ![c].reader = "running",
                         ![c].nOut = @ + 1, ![c].held = <<>>,
                         ![c].sent = emit(@, w.frame),
                         ![c].writing = @ \ {w},
                         ![c].worker = "reading"]
    /\ UNCHANGED tmuxVars /\ NotTerm /\ NotTun

\* _pty_reader, lines 143-144 and 165-166, _blocking_read 194-195: the read
\* returns nothing once the attach process is gone, and the loop ends
ReaderEOF(c) ==
    /\ conn[c].reader = "running"
    /\ conn[c].proc = "exited"
    /\ conn[c].held = <<>>
    /\ conn' = [conn EXCEPT ![c].reader = "ended", ![c].readerEnd = "eof",
                            ![c].worker = "idle"]
    /\ UNCHANGED tmuxVars /\ NotTerm /\ NotTun

\* _message_loop, lines 206-208, and lines 112-114: the peer disconnected
PeerDisconnect(c) ==
    /\ conn[c].pc = "bridging"
    /\ conn' = [conn EXCEPT ![c].pc = "td_cancel", ![c].exit = "disconnect"]
    /\ UNCHANGED tmuxVars /\ NotTerm /\ NotTun

\* _message_loop, lines 206-225: handling a frame raises (a frame that is no
\* JSON object, a write to a pty whose other end is gone)
LoopError(c) ==
    /\ conn[c].pc = "bridging"
    /\ conn' = [conn EXCEPT ![c].pc = "td_cancel", ![c].exit = "error"]
    /\ UNCHANGED tmuxVars /\ NotTerm /\ NotTun

\* the handler's task is cancelled while it waits in _message_loop
Cancel(c) ==
    /\ conn[c].pc = "bridging"
    /\ conn' = [conn EXCEPT ![c].pc = "td_cancel", ![c].exit = "cancelled"]
    /\ UNCHANGED tmuxVars /\ NotTerm /\ NotTun

\* what the handler raises when the finally block is through
Reraised(exit) ==
    CASE exit = "error" -> "Exception"
      [] exit = "cancelled" -> "CancelledError"
      [] OTHER -> "none"

\* a teardown step ran and raised err: on to `next`, or out of the handler
AfterStep(c, step, err, next) ==
    IF err = "none"
    THEN [conn[c] EXCEPT !.pc = next, !.tdLog = Append(@, step),
             !.raised = IF next = "done" THEN Reraised(conn[c].exit) ELSE @]
    ELSE IF swallowed(step, err)
    THEN [conn[c] EXCEPT !.pc = next, !.tdLog = Append(@, step),
             !.tdErr = @ \cup {step}]
    ELSE [conn[c] EXCEPT !.pc = "done", !.tdLog = Append(@, step),
             !.tdErr = @ \cup {step}, !.raised = err]

\* line 115: reader_task.cancel()
TdCancel(c) ==
    /\ conn[c].pc = "td_cancel"
    /\ conn' = [conn EXCEPT ![c].pc = "td_await",
                   ![c].tdLog = Append(@, "cancel"),
                   ![c].reader = IF @ \in {"running", "sending"}
                                 THEN "cancelling" ELSE @]
    /\ UNCHANGED tmuxVars /\ NotTerm /\ NotTun

\* _pty_reader, lines 167-168: the reader gets the CancelledError and ends
ReaderCancelled(c) ==
    /\ conn[c].reader = "cancelling"
    /\ conn' = [conn EXCEPT ![c].reader = "ended",
                            ![c].readerEnd = "cancelled",
                            ![c].writing = {w \in @ : w.task # "reader"}]
    /\ UNCHANGED tmuxVars /\ NotTerm /\ NotTun

\* _blocking_read, lines 187-197, in its worker thread after the reader that
\* waited for it was cancelled: cancelling the task drops the wait at line
\* 140 and leaves the thread in os.read; when the read returns, the finally
\* clause restores the flags of descriptor number fd. With the descriptor
\* closed by then, fcntl raises EBADF in the thread or, the number being in
\* use again, sets the flags of another file.
WorkerOutcomes(master) ==
    IF master = "closed" THEN {"EBADF", "other_file"} ELSE {"idle"}

WorkerReturns(c, outcome) ==
    /\ conn[c].worker = "reading"
    /\ conn[c].reader \in {"cancelling", "ended"}
    /\ outcome \in WorkerOutcomes(conn[c].master)
    /\ conn' = [conn EXCEPT ![c].worker = outcome]
    /\ UNCHANGED tmuxVars /\ NotTerm /\ NotTun

\* lines 116-119: await reader_task
TdAwait(c, err) ==
    /\ conn[c].pc = "td_await"
    /\ conn[c].reader = "ended"
    /\ err \in Raises("await")
    /\ conn' = [conn EXCEPT ![c] = AfterStep(c, "await", err, "td_close")]
    /\ UNCHANGED tmuxVars /\ NotTerm /\ NotTun

\* lines 120-123: os.close(master_fd)
TdClose(c, err) ==
    /\ conn[c].pc = "td_close"
    /\ err \in Raises("close")
    /\ conn' = [conn EXCEPT ![c] =
                   [AfterStep(c, "close", err, "td_kill") EXCEPT
                       !.master = "closed"]]
    /\ UNCHANGED tmuxVars /\ NotTerm /\ NotTun

TdKill_ends_session(c) ==
    /\ conn[c].pc = "td_kill"
    /\ LET err == IF conn[c].proc = "exited" THEN "ProcessLookupError"
                  ELSE "none"
       IN  conn' = [conn EXCEPT ![c] =
                       [AfterStep(c, "kill", err, "td_wait") EXCEPT
                           !.proc = IF @ = "running" THEN "killed" ELSE @]]
    /\ tmux' = tmux_kill_session(tmux_name(conn[c].sid)).tmux
    /\ UNCHANGED <<registry, usedIds, wall>> /\ NotTerm /\ NotTun

\* lines 124-127: proc.kill()
TdKill(c) ==
    /\ conn[c].pc = "td_kill"
    /\ LET err == IF conn[c].proc = "exited" THEN "ProcessLookupError"
                  ELSE "none"
       IN  conn' = [conn EXCEPT ![c] =
                       [AfterStep(c, "kill", err, "td_wait") EXCEPT
                           !.proc = IF @ = "running" THEN "killed" ELSE @]]
    /\ UNCHANGED tmuxVars /\ NotTerm /\ NotTun

\* line 128: await proc.wait()
TdWait(c) ==
    /\ conn[c].pc = "td_wait"
    /\ conn[c].proc \in {"killed", "exited"}
    /\ conn' = [conn EXCEPT ![c] =
                   [AfterStep(c, "reap", "none", "done") EXCEPT
                       !.proc = "reaped"]]
    /\ UNCHANGED tmuxVars /\ NotTerm /\ NotTun

\* the connection is over; the slot takes the next one
Release(c) ==
    /\ conn[c].pc = "done"
    /\ conn' = [conn EXCEPT ![c] = IdleConn]
    /\ UNCHANGED tmuxVars /\ NotTerm /\ NotTun

\* ------------------------------------- app/api/auth: routes behind a token
\* what can stand where a token is expected: every combination of what
\* jwt.decode looks at, and the empty string
TokenTypes == {"access", "refresh", "other"}
AllTokens == [sig : BOOLEAN, expired : BOOLEAN, typ : TokenTypes,
              jti : {NoJti} \cup Jtis]
Headers == {EmptyToken, AccessToken, ExpiredAccessToken, GarbageToken,
            RefreshToken(1)}
TokenRoutes == {"protected", "terminal"}

\* get_current_user, lines 40-67, on the token of the Authorization header
get_current_user(token) ==
    IF token = EmptyToken THEN [ok |-> FALSE] ELSE decode_access_token(token)

\* ------------------------------------------------------ app/api/sessions
\* an Authorization header: its scheme and what follows the first space
NoHeader == <<>>
AuthHeaders ==
    {NoHeader}
    \cup [scheme : {"Bearer"},
          token : {AccessToken, EmptyToken, GarbageToken,
                   ExpiredAccessToken, RefreshToken(1)}]
    \cup [scheme : {"bearer", "Basic"}, token : {AccessToken}]

\* str.lower
lower(word) ==
    CASE word = "Bearer" -> "bearer"
      [] word = "Basic" -> "basic"
      [] OTHER -> word

\* get_current_user, lines 40-67, on the Authorization header
authorize_any_scheme(authorization) ==
    IF authorization = NoHeader THEN [ok |-> FALSE]
    ELSE get_current_user(authorization.token)
authorize(authorization) ==
    IF authorization = NoHeader THEN [ok |-> FALSE]
    ELSE IF lower(authorization.scheme) # "bearer"
            \/ authorization.token = EmptyToken
    THEN [ok |-> FALSE]
    ELSE get_current_user(authorization.token)

SessionRoutes == {"create", "list", "delete"}

\* TmuxManager.create_session(self, name), tmux.py line 56: the keywords
\* it takes, and those the route passes at sessions.py lines 40-44; a
\* keyword the method does not take makes the call raise TypeError
create_session_params == {"name"}
create_session_call == {"name", "command", "plugin"}
call_raises == ~(create_session_call \subseteq create_session_params)

\* get_plugin_manager() and mgr.get(body.plugin), lines 26-38
PluginStates == {"unset", "unknown", "known"}

\* sessions.py, lines 20-70: a request to a session route, up to the first
\* wait of its TmuxManager call
RouteCall(o, route, authorization, session_id, plugins) ==
    /\ op[o].pc = "idle"
    /\ call_raises
    /\ LET answer(status) ==
               [IdleOp EXCEPT !.pc = "respond", !.route = route,
                              !.authz = authorization, !.status = status,
                              !.id = IF route = "delete" THEN session_id
                                     ELSE <<>>]
           call(started) ==
               [started EXCEPT !.route = route, !.authz = authorization]
       IN  op' = [op EXCEPT ![o] =
              IF ~authorize(authorization).ok THEN answer(401)
              ELSE CASE route = "list" -> call(list_cmd)
                     [] route = "delete" -> call(kill_probe(session_id))
                     [] OTHER ->
                          CASE plugins = "unset" -> answer(500)
                            [] plugins = "unknown" -> answer(404)
                            [] OTHER -> answer(500)]
    /\ UNCHANGED <<authVars, tmuxVars, conn, tun, sweeper>>

\* sessions.py, lines 45, 54 and 63-70: the response
RouteRespond(o) ==
    /\ op[o].route # "none"
    /\ op[o].pc \in {"respond", "done"}
    /\ op' = [op EXCEPT ![o].pc = "answered",
                 ![o].status =
                    IF op[o].pc = "respond" THEN @
                    ELSE CASE op[o].result = "ok" -> 200
                           [] op[o].result = "ValueError" -> 404
                           [] OTHER -> 500]
    /\ UNCHANGED <<authVars, tmuxVars, conn, tun, sweeper>>

\* the response is out; the slot is free again
RouteReturn(o) ==
    /\ op[o].pc = "answered"
    /\ op' = [op EXCEPT ![o] = IdleOp]
    /\ UNCHANGED <<authVars, tmuxVars, conn, tun, sweeper>>

\* a request that carries an access token arrives: a protected route, or
\* the first message of a terminal connection
ArriveWithAccess(r, kind, token) ==
    /\ req[r].pc = "idle"
    /\ req' = [req EXCEPT ![r] = [IdleReq EXCEPT !.pc = "pending",
                                   !.kind = kind, !.access = token]]
    /\ UNCHANGED <<active, failures, lockedUntil, now, nextJti, nTicks, uses,
                   rotated, failLog>>
    /\ UNCHANGED <<tmuxVars, op, conn, tun, sweeper>>

\* a route with Depends(get_current_user): api/sessions.py lines 23, 50, 60
HandleProtected(r) ==
    /\ req[r].pc = "pending" /\ req[r].kind = "protected"
    /\ req' = [req EXCEPT ![r].pc = "done",
                  ![r].status = IF get_current_user(req[r].access).ok
                                THEN 200 ELSE 401]
    /\ UNCHANGED <<active, failures, lockedUntil, now, nextJti, nTicks, uses,
                   rotated, failLog>>
    /\ UNCHANGED <<tmuxVars, op, conn, tun, sweeper>>

\* terminal_handler, lines 52-68, on {"type": "auth", "token": ...}
HandleTerminalAuth(r) ==
    /\ req[r].pc = "pending" /\ req[r].kind = "terminal"
    /\ LET a == auth_phase([type |-> "auth", token |-> req[r].access])
       IN  req' = [req EXCEPT ![r].pc = "done",
                      ![r].status = IF a.ok THEN 200 ELSE a.code]
    /\ UNCHANGED <<active, failures, lockedUntil, now, nextJti, nTicks, uses,
                   rotated, failLog>>
    /\ UNCHANGED <<tmuxVars, op, conn, tun, sweeper>>

\* a refresh request with any token at all
ArriveRefreshAny(r, token) ==
    /\ req[r].pc = "idle"
    /\ nextJti <= MaxJti
    /\ req' = [req EXCEPT ![r] = [IdleReq EXCEPT !.pc = "pending",
                                   !.kind = "refresh", !.token = token]]
    /\ UNCHANGED <<active, failures, lockedUntil, now, nextJti, nTicks, uses,
                   rotated, failLog>>
    /\ UNCHANGED <<tmuxVars, op, conn, tun, sweeper>>

ArriveLogout(r, access, token) ==
    /\ req[r].pc = "idle"
    /\ req' = [req EXCEPT ![r] = [IdleReq EXCEPT !.pc = "pending",
                                   !.kind = "logout", !.access = access,
                                   !.token = token]]
    /\ UNCHANGED <<active, failures, lockedUntil, now, nextJti, nTicks, uses,
                   rotated, failLog>>
    /\ UNCHANGED <<tmuxVars, op, conn, tun, sweeper>>

\* logout(): lines 129-140
HandleLogout(r) ==
    /\ req[r].pc = "pending" /\ req[r].kind = "logout"
    /\ IF ~get_current_user(req[r].access).ok
       THEN /\ req' = [req EXCEPT ![r].pc = "done", ![r].status = 401]
            /\ UNCHANGED active
       ELSE LET payload == decode_refresh_token(req[r].token)
            IN  /\ active' = IF payload.ok THEN revoke(active, payload.jti)
                              ELSE active
                /\ req' = [req EXCEPT ![r].pc = "done", ![r].status = 200]
    /\ UNCHANGED <<failures, lockedUntil, now, nextJti, nTicks, uses,
                   rotated, failLog>>
    /\ UNCHANGED <<tmuxVars, op, conn, tun, sweeper>>

\* ------------------------------------ app/core/token_store, called directly
MaxFailures == 6     \* record_failure() calls followed between two reset()

LimiterCalls == {"is_locked", "record_failure", "reset"}

\* LoginRateLimiter.is_locked, record_failure, reset: lines 58-82, called as
\* the tests call them; each is a plain method and runs as one step. ret is
\* what is_locked() returned; failLog keeps the times of the record_failure()
\* calls since the last reset()
CallLimiter(r, kind) ==
    /\ req[r].pc = "idle"
    /\ kind = "record_failure" => Len(failLog) < MaxFailures
    /\ LET lk == is_locked(failures, lockedUntil, now)
           rf == record_failure(failures, lockedUntil, now)
           after == CASE kind = "is_locked" -> lk
                      [] kind = "record_failure" -> rf
                      [] OTHER -> reset
       IN  /\ failures' = after.failures
           /\ lockedUntil' = after.lockedUntil
           /\ req' = [req EXCEPT ![r] = [IdleReq EXCEPT
                          !.pc = "done", !.kind = kind,
                          !.ret = IF kind = "is_locked" THEN lk.locked
                                  ELSE FALSE]]
    /\ failLog' = CASE kind = "record_failure" -> Append(failLog, now)
                    [] kind = "reset" -> <<>>
                    [] OTHER -> failLog
    /\ UNCHANGED <<active, now, nextJti, nTicks, uses, rotated>>
    /\ UNCHANGED <<tmuxVars, op, conn, tun, sweeper>>

StoreCalls == {"add", "revoke", "rotate"}

\* a caller of RefreshTokenStore is about to call add(jti), revoke(jti) or
\* rotate(jti, new_jti); rotate is given a new_jti other than the old one,
\* as refresh() gives it a fresh uuid4
CallStore(r, kind, jti, new_jti) ==
    /\ req[r].pc = "idle"
    /\ kind = "rotate" => new_jti # jti
    /\ kind # "rotate" => new_jti = jti
    /\ req' = [req EXCEPT ![r] = [IdleReq EXCEPT !.pc = "pending",
                                   !.kind = kind,
                                   !.token = RefreshToken(jti),
                                   !.out = new_jti]]
    /\ UNCHANGED <<active, failures, lockedUntil, now, nextJti, nTicks, uses,
                   rotated, failLog>>
    /\ UNCHANGED <<tmuxVars, op, conn, tun, sweeper>>

\* RefreshTokenStore.add, revoke, rotate: lines 15-36; status 500 stands for
\* the ValueError
HandleStore(r) ==
    /\ req[r].pc = "pending" /\ req[r].kind \in StoreCalls
    /\ LET jti == req[r].token.jti
           rot == rotate(active, jti, req[r].out)
       IN  CASE req[r].kind = "add" ->
                  /\ active' = add(active, jti)
                  /\ req' = [req EXCEPT ![r].pc = "done", ![r].status = 200]
             [] req[r].kind = "revoke" ->
                  /\ active' = revoke(active, jti)
                  /\ req' = [req EXCEPT ![r].pc = "done", ![r].status = 200]
             [] OTHER ->
                  /\ active' = rot.jtis
                  /\ req' = [req EXCEPT ![r].pc = "done",
                                 ![r].status = IF rot.raised THEN 500
                                               ELSE 200]
    /\ UNCHANGED <<failures, lockedUntil, now, nextJti, nTicks, uses,
                   rotated, failLog>>
    /\ UNCHANGED <<tmuxVars, op, conn, tun, sweeper>>

InitTmux ==
    /\ tmux = << >>
    /\ registry = << >>
    /\ usedIds = {}
    /\ wall = 0
    /\ op = [o \in Ops |-> IdleOp]
    /\ conn = [c \in Conns |-> IdleConn]
    /\ tun = InitTun
    /\ sweeper = InitSweeper

Init == InitAuth /\ InitTmux

\* the auth routes under concurrent requests (the clock stands still)
NextAuth ==
    \/ \E r \in Slots, p \in Passwords : ArriveLogin(r, p)
    \/ \E r \in Slots : HandleLogin(r)
    \/ \E r \in Slots, t \in Presentable : ArriveRefresh(r, t)
    \/ \E r \in Slots : HandleRefresh(r)
    \/ \E r \in Slots : Collect(r)

SpecAuth == Init /\ [][NextAuth]_vars

\* the login guard over time: login requests, one at a time, and the clock
NextGuard ==
    \/ \E p \in Passwords : ArriveLogin(1, p)
    \/ HandleLogin(1)
    \/ Collect(1)
    \/ \E d \in TickSteps : Tick(d)

SpecGuard == Init /\ [][NextGuard]_vars

\* the rate limiter on its own: its methods in any order, and the clock
NextLimiter ==
    \/ \E kind \in LimiterCalls : CallLimiter(1, kind)
    \/ Collect(1)
    \/ \E d \in TickSteps : Tick(d)

SpecLimiter == Init /\ [][NextLimiter]_vars

\* the session manager under concurrent calls, beside the host's own tmux use
NextTmux ==
    \/ \E o \in Ops, name \in DisplayNames, ok \in BOOLEAN :
          CreateCmd(o, name, ok)
    \/ \E o \in Ops : CreateRet(o)
    \/ \E o \in Ops : ListCmd(o)
    \/ \E o \in Ops : ListRet(o)
    \/ \E o \in Ops, i \in KnownIds : SessionExists(o, i)
    \/ \E o \in Ops, i \in KnownIds : KillProbe(o, i)
    \/ \E o \in Ops : KillCmd(o)
    \/ \E o \in Ops : KillRet(o)
    \/ \E o \in Ops : Return(o)
    \/ \E n \in ForeignNames : ExtCreate(n)
    \/ \E n \in DOMAIN tmux : ExtKill(n)

SpecTmux == Init /\ [][NextTmux]_vars

\* the session routes and the sessions they work on, which one caller
\* outside the routes makes (create_session at terminal.py line 81)
NextRoutes ==
    \/ \E o \in Ops, authorization \in AuthHeaders, plugins \in PluginStates :
          RouteCall(o, "create", authorization, <<>>, plugins)
    \/ \E o \in Ops, authorization \in AuthHeaders :
          RouteCall(o, "list", authorization, <<>>, "known")
    \/ \E o \in Ops, authorization \in AuthHeaders, session_id \in KnownIds :
          RouteCall(o, "delete", authorization, session_id, "known")
    \/ \E o \in Ops : RouteRespond(o)
    \/ \E name \in DisplayNames, ok \in BOOLEAN : CreateCmd(1, name, ok)
    \/ CreateRet(1)
    \/ op[1].route = "none" /\ Return(1)
    \/ \E o \in Ops : ListRet(o)
    \/ \E o \in Ops : KillCmd(o)
    \/ \E o \in Ops : KillRet(o)
    \/ \E o \in Ops : RouteReturn(o)
    \/ \E n \in DOMAIN tmux : ExtKill(n)

SpecRoutes == Init /\ [][NextRoutes]_vars

\* one client and everything login and refresh can be sent: right and wrong
\* passwords, up to the lockout, and tokens of every kind
NextIssue ==
    \/ \E p \in Passwords : ArriveLogin(1, p)
    \/ HandleLogin(1)
    \/ \E token \in AllTokens : ArriveRefreshAny(1, token)
    \/ HandleRefresh(1)
    \/ ArriveLogout(1, AccessToken, RefreshToken(1))
    \/ HandleLogout(1)
    \/ Collect(1)

SpecIssue == Init /\ [][NextIssue]_vars

\* the token store under every sequence of calls
NextStore ==
    \/ \E kind \in StoreCalls, jti \in Jtis, new_jti \in Jtis :
          CallStore(1, kind, jti, new_jti)
    \/ HandleStore(1)
    \/ Collect(1)

SpecStore == Init /\ [][NextStore]_vars

\* one client: it logs in, and presents tokens of every kind to the routes
\* that take one
NextTokens ==
    \/ ArriveLogin(1, AuthPassword)
    \/ HandleLogin(1)
    \/ \E kind \in TokenRoutes, token \in AllTokens \cup {EmptyToken} :
          ArriveWithAccess(1, kind, token)
    \/ HandleProtected(1)
    \/ HandleTerminalAuth(1)
    \/ \E token \in AllTokens : ArriveRefreshAny(1, token)
    \/ HandleRefresh(1)
    \/ \E access \in Headers, token \in AllTokens :
          ArriveLogout(1, access, token)
    \/ HandleLogout(1)
    \/ Collect(1)

SpecTokens == Init /\ [][NextTokens]_vars

\* the sweep of expired sessions, while sessions are made and killed and
\* time passes; sweeps are started by one caller, one after the other
NextSweep ==
    \/ \E o \in Ops, name \in DisplayNames, ok \in BOOLEAN :
          CreateCmd(o, name, ok)
    \/ \E o \in Ops : CreateRet(o)
    \/ \E ttl_hours \in TtlHours : SweepCmd(1, ttl_hours)
    \/ \E o \in Ops : SweepListed(o)
    \/ \E o \in Ops : SweepNext(o)
    \/ \E o \in Ops : SweepKillCmd(o)
    \/ \E o \in Ops : SweepKillRet(o)
    \/ \E o \in Ops : SweepRet(o)
    \/ \E o \in Ops : Return(o)
    \/ ExtCreate(Prefix \o UnknownId)
    \/ \E n \in DOMAIN tmux : ExtKill(n)
    \/ WallTick

SpecSweep == Init /\ [][NextSweep]_vars

\* the sweeper task, while sessions are made and killed and time passes
NextSweeper ==
    \/ SweeperStep
    \/ SweeperCancel
    \/ WallTick
    \/ \E o \in Ops, name \in DisplayNames, ok \in BOOLEAN :
          CreateCmd(o, name, ok)
    \/ \E o \in Ops : CreateRet(o)
    \/ \E o \in Ops : op[o].kind # "sweep" /\ Return(o)
    \/ \E n \in DOMAIN tmux : ExtKill(n)

SpecSweeper == Init /\ [][NextSweeper]_vars

\* the event loop runs the sweeper when its sleep is over
FairSpecSweeper == SpecSweeper /\ WF_vars(SweeperStep)

\* what the server does by itself on connection c: the handler and its reader
ServerStep(c) ==
    \/ Probe(c)
    \/ \E ok \in BOOLEAN : ConnCreateCmd(c, ok)
    \/ ConnCreateRet(c)
    \/ \E spawned \in BOOLEAN : OpenPtySpawn(c, spawned)
    \/ AfterSpawn(c)
    \/ ReaderOutput(c)
    \/ ReaderEOF(c)
    \/ TdCancel(c)
    \/ ReaderCancelled(c)
    \/ \E err \in Raises("await") : TdAwait(c, err)
    \/ \E err \in Raises("close") : TdClose(c, err)
    \/ TdKill(c)
    \/ TdWait(c)

\* what the peer, the attach process and the host do
PeerStep(c) ==
    \/ Connect(c)
    \/ AuthTimeout(c)
    \/ DisconnectInAuth(c)
    \/ \E raw \in FirstMsgs : RecvFirst(c, raw)
    \/ AttachExits(c)
    \/ ReaderRead(c, <<"l", "s">>)
    \/ PeerDisconnect(c)
    \/ LoopError(c)
    \/ Cancel(c)
    \/ Release(c)

\* terminal connections, beside the host's own tmux use
NextTerm ==
    \/ \E c \in Conns : ServerStep(c)
    \/ \E c \in Conns : PeerStep(c)
    \/ \E n \in DOMAIN tmux : ExtKill(n)

SpecTerm == Init /\ [][NextTerm]_vars

\* the first messages of connections that get to a session
GatewayFirstMsgs ==
    {[type |-> "auth", token |-> AccessToken]}
    \cup {[type |-> "auth", token |-> AccessToken, session_id |-> i] :
             i \in KnownIds}

\* every caller of tmux together: a call of the manager beside a terminal
\* connection, which makes its own, and the host's own tmux use
NextGateway ==
    \/ \E name \in DisplayNames, ok \in BOOLEAN : CreateCmd(1, name, ok)
    \/ CreateRet(1)
    \/ \E i \in KnownIds : KillProbe(1, i)
    \/ KillCmd(1)
    \/ KillRet(1)
    \/ Return(1)
    \/ \E c \in Conns : Connect(c)
    \/ \E c \in Conns, raw \in GatewayFirstMsgs : RecvFirst(c, raw)
    \/ \E c \in Conns : Probe(c)
    \/ \E c \in Conns, ok \in BOOLEAN : ConnCreateCmd(c, ok)
    \/ \E c \in Conns : ConnCreateRet(c)
    \/ \E c \in Conns, spawned \in BOOLEAN : OpenPtySpawn(c, spawned)
    \/ \E c \in Conns : AfterSpawn(c)
    \/ \E c \in Conns, ok \in BOOLEAN : RecvFrame(c, ResizeFrame, ok)
    \/ \E c \in Conns : PeerDisconnect(c)
    \/ \E c \in Conns : TdCancel(c)
    \/ \E c \in Conns : ReaderCancelled(c)
    \/ \E c \in Conns : TdAwait(c, "none")
    \/ \E c \in Conns : TdClose(c, "none")
    \/ \E c \in Conns : TdKill(c)
    \/ \E c \in Conns : TdWait(c)
    \/ \E n \in ForeignNames : ~startswith(n, Prefix) /\ ExtCreate(n)
    \/ \E n \in DOMAIN tmux : ExtKill(n)

SpecGateway == Init /\ [][NextGateway]_vars

\* the first messages of the connections whose traffic is followed
LoopFirstMsgs ==
    {[type |-> "auth", token |-> AccessToken],
     [type |-> "auth", token |-> GarbageToken],
     [type |-> "auth", token |-> AccessToken, session_id |-> UnknownId]}

\* one connection and the frames on it, from connect to the end of teardown
NextLoop ==
    \/ \E c \in Conns : ServerStep(c)
    \/ \E c \in Conns : Connect(c)
    \/ \E c \in Conns, raw \in LoopFirstMsgs : RecvFirst(c, raw)
    \/ \E c \in Conns, msg \in Frames, ok \in BOOLEAN : RecvFrame(c, msg, ok)
    \/ \E c \in Conns : ReaderRead(c, <<"l", "s">>)
    \/ \E c \in Conns : AttachExits(c)
    \/ \E c \in Conns : PeerDisconnect(c)

SpecLoop == Init /\ [][NextLoop]_vars

\* one connection and the resize frames on it
NextResize ==
    \/ \E c \in Conns : ServerStep(c)
    \/ \E c \in Conns : Connect(c)
    \/ \E c \in Conns, raw \in LoopFirstMsgs : RecvFirst(c, raw)
    \/ \E c \in Conns, msg \in ResizeFrames \cup {PingFrame}, ok \in BOOLEAN :
          RecvFrame(c, msg, ok)
    \/ \E c \in Conns : ReaderRead(c, <<"l", "s">>)
    \/ \E c \in Conns : AttachExits(c)
    \/ \E c \in Conns : PeerDisconnect(c)

SpecResize == Init /\ [][NextResize]_vars

FairSpecLoop == SpecLoop /\ \A c \in Conns : WF_vars(ServerStep(c))

ReaderFirstMsgs ==
    {[type |-> "auth", token |-> AccessToken],
     [type |-> "auth", token |-> AccessToken, session_id |-> UnknownId]}

\* one connection and what its reader reads and sends
NextReader ==
    \/ \E c \in Conns : ServerStep(c)
    \/ \E c \in Conns : Connect(c)
    \/ \E c \in Conns, raw \in ReaderFirstMsgs : RecvFirst(c, raw)
    \/ \E c \in Conns, data \in Chunks : ReaderRead(c, data)
    \/ \E c \in Conns : AttachExits(c)
    \/ \E c \in Conns : PeerDisconnect(c)
    \/ \E c \in Conns : Cancel(c)
    \/ \E c \in Conns, outcome \in {"idle", "EBADF", "other_file"} :
          WorkerReturns(c, outcome)

SpecReader == Init /\ [][NextReader]_vars

\* what the reader reads in the runs that follow the preview tunnels
TunnelChunks == {<<"l", "s">>, <<"listening on 3000">>,
                 <<"listening on 8000">>}

\* one connection, the ports its output names and the preview tasks
NextTunnel ==
    \/ \E c \in Conns : ServerStep(c)
    \/ \E c \in Conns : Connect(c)
    \/ \E c \in Conns, raw \in ReaderFirstMsgs : RecvFirst(c, raw)
    \/ \E c \in Conns, data \in TunnelChunks : ReaderRead(c, data)
    \/ \E t \in 1..MaxTasks, available, spawned \in BOOLEAN :
          PreviewStart(t, available, spawned)
    \/ \E t \in 1..MaxTasks, got \in BOOLEAN : PreviewRead(t, got)
    \/ \E c \in Conns : AttachExits(c)
    \/ \E c \in Conns : PeerDisconnect(c)

SpecTunnel == Init /\ [][NextTunnel]_vars

\* one connection from any first message on, with everything the server
\* sends while bridging: pongs, output and preview notices; the attach
\* process keeps running and cloudflared gives its urls
NextBridge ==
    \/ \E c \in Conns : Connect(c)
    \/ \E c \in Conns : AuthTimeout(c)
    \/ \E c \in Conns : DisconnectInAuth(c)
    \/ \E c \in Conns, raw \in FirstMsgs : RecvFirst(c, raw)
    \/ \E c \in Conns : Probe(c)
    \/ \E c \in Conns, ok \in BOOLEAN : ConnCreateCmd(c, ok)
    \/ \E c \in Conns : ConnCreateRet(c)
    \/ \E c \in Conns, spawned \in BOOLEAN : OpenPtySpawn(c, spawned)
    \/ \E c \in Conns : AfterSpawn(c)
    \/ \E c \in Conns : RecvFrame(c, PingFrame, TRUE)
    \/ \E c \in Conns : ReaderRead(c, <<"listening on 3000">>)
    \/ \E c \in Conns : ReaderOutput(c)
    \/ \E t \in 1..MaxTasks : PreviewStart(t, TRUE, TRUE)
    \/ \E t \in 1..MaxTasks : PreviewRead(t, TRUE)
    \/ \E c \in Conns : PeerDisconnect(c)
    \/ \E c \in Conns : TdCancel(c)
    \/ \E c \in Conns : ReaderCancelled(c)
    \/ \E c \in Conns : TdAwait(c, "none")
    \/ \E c \in Conns : TdClose(c, "none")
    \/ \E c \in Conns : TdKill(c)
    \/ \E c \in Conns : TdWait(c)

SpecBridge == Init /\ [][NextBridge]_vars

\* a connection on the session it made, the hours passing, and sweeps
NextExpire ==
    \/ \E c \in Conns : Connect(c)
    \/ \E c \in Conns :
          RecvFirst(c, [type |-> "auth", token |-> AccessToken])
    \/ \E c \in Conns : ConnCreateCmd(c, TRUE)
    \/ \E c \in Conns : ConnCreateRet(c)
    \/ \E c \in Conns : OpenPtySpawn(c, TRUE)
    \/ \E c \in Conns : AfterSpawn(c)
    \/ \E c \in Conns : ReaderRead(c, <<"l", "s">>)
    \/ \E c \in Conns : ReaderOutput(c)
    \/ \E c \in Conns : AttachExits(c)
    \/ \E c \in Conns : ReaderEOF(c)
    \/ \E c \in Conns : PeerDisconnect(c)
    \/ \E c \in Conns : TdCancel(c)
    \/ \E c \in Conns : ReaderCancelled(c)
    \/ \E c \in Conns : TdAwait(c, "none")
    \/ \E c \in Conns : TdClose(c, "none")
    \/ \E c \in Conns : TdKill(c)
    \/ \E c \in Conns : TdWait(c)
    \/ \E ttl_hours \in TtlHours : SweepCmd(1, ttl_hours)
    \/ SweepListed(1)
    \/ SweepNext(1)
    \/ SweepKillCmd(1)
    \/ SweepKillRet(1)
    \/ SweepRet(1)
    \/ Return(1)
    \/ WallTick

SpecExpire == Init /\ [][NextExpire]_vars

\* the session of connection c is gone from the tmux server: tmux ends the
\* clients of a session with it, so the attach process exits
SessionGone(c) ==
    conn[c].proc = "running" /\ tmux_name(conn[c].sid) \notin DOMAIN tmux

\* tmux ends the attach process of a killed session, and the event loop
\* runs the reader task whenever its read has returned
FairSpecExpire ==
    /\ SpecExpire
    /\ \A c \in Conns : WF_vars(SessionGone(c) /\ AttachExits(c))
    /\ \A c \in Conns : WF_vars(ReaderOutput(c))
    /\ \A c \in Conns : WF_vars(ReaderEOF(c))

\* one connection whose sends can wait for the transport
NextWrites ==
    \/ \E c \in Conns : ServerStep(c)
    \/ \E c \in Conns : Connect(c)
    \/ \E c \in Conns, raw \in ReaderFirstMsgs : RecvFirst(c, raw)
    \/ \E c \in Conns, msg \in Frames, ok \in BOOLEAN : RecvFrame(c, msg, ok)
    \/ \E c \in Conns, msg \in Frames : RecvFrameSendWaits(c, msg)
    \/ \E c \in Conns : LoopSendReturns(c)
    \/ \E c \in Conns : ReaderRead(c, <<"l", "s">>)
    \/ \E c \in Conns : ReaderSendWaits(c)
    \/ \E c \in Conns : ReaderSendReturns(c)
    \/ \E c \in Conns : AttachExits(c)
    \/ \E c \in Conns : PeerDisconnect(c)

SpecWrites == Init /\ [][NextWrites]_vars

\* the event loop runs every coroutine that can run; the peer, the attach
\* process and the host's users owe nothing
FairSpecTerm == SpecTerm /\ \A c \in Conns : WF_vars(ServerStep(c))

\* ================================================================= claims

HandledBy(r, kind) ==
    req[r].pc = "pending" /\ req[r].kind = kind /\ req'[r].pc = "done"

\* two refresh requests that were pending together with the same well-formed
\* refresh token, which no third request ever presented
RacedPairs ==
    {p \in Slots \X Slots :
        /\ p[1] # p[2]
        /\ req[p[1]].kind = "refresh" /\ req[p[2]].kind = "refresh"
        /\ req[p[1]].rival = p[2] /\ req[p[2]].rival = p[1]
        /\ decode_refresh_token(req[p[1]].token).ok
        /\ uses[req[p[1]].token.jti] = 2}

\* C1: of two refresh requests racing on the same refresh token the new jtis
\* are never both active, and once both are answered exactly one got 200, the
\* other 401, and the old jti is inactive.
C1_RaceHasOneWinner ==
    \A p \in RacedPairs :
        LET a == req[p[1]]
            b == req[p[2]]
        IN  /\ ~(a.out \in active /\ b.out \in active)
            /\ (a.pc = "done" /\ b.pc = "done") =>
                  /\ {a.status, b.status} = {200, 401}
                  /\ a.token.jti \notin active

C1_Witness ==
    \E p \in RacedPairs : req[p[1]].pc = "done" /\ req[p[2]].pc = "done"

\* C2: a successful refresh returns a refresh token whose jti differs from
\* the presented one and deactivates the presented one, and a refresh that
\* presents a jti already rotated away is answered 401.
C2_RotationInvalidatesOld ==
    [][\A r \in Slots :
          HandledBy(r, "refresh") =>
              /\ req'[r].status = 200 =>
                    /\ req'[r].out # req[r].token.jti
                    /\ req'[r].out \in active'
                    /\ req[r].token.jti \notin active'
              /\ req[r].token.jti \in rotated => req'[r].status = 401]_vars

C2_Witness ==
    \E r \in Slots :
        /\ req[r].pc = "done" /\ req[r].kind = "refresh"
        /\ req[r].token.jti \in rotated /\ req[r].status = 401

\* the failures the claim counts: all since the last successful login
\* (C3 as stated), or those of them inside the window that ends at the last
LastFailure == failLog[Len(failLog)]
FailuresInWindow ==
    Cardinality({i \in 1..Len(failLog) :
                    failLog[i] > LastFailure - WindowSeconds})
LockoutRunning == now < LastFailure + LockoutSeconds

\* C3 as stated: after MaxAttempts failed logins the next login is answered
\* 429 until the lockout has elapsed, whatever the time between the failures.
C3_AsStated ==
    [][\A r \in Slots :
          HandledBy(r, "login") =>
              IF Len(failLog) < MaxAttempts
              THEN req'[r].status # 429
              ELSE LockoutRunning => req'[r].status = 429]_vars

\* C3 amended: a login is answered 429, whatever its password, exactly when
\* the last failed login was at least the MaxAttempts-th within one window
\* of WindowSeconds and less than LockoutSeconds have passed since it.
C3_LockoutAfterThresholdInWindow ==
    [][\A r \in Slots :
          HandledBy(r, "login") =>
              (req'[r].status = 429 <=>
                  /\ Len(failLog) > 0
                  /\ FailuresInWindow >= MaxAttempts
                  /\ LockoutRunning)]_vars

C3_Witness ==
    \E r \in Slots :
        /\ req[r].pc = "done" /\ req[r].kind = "login"
        /\ req[r].password = AuthPassword /\ req[r].status = 429
        /\ now > 0


\* ---------------------------------------------------------------- C4 .. C8
Released(c) ==
    /\ conn[c].master \in {"none", "closed"}
    /\ conn[c].slave \in {"none", "closed"}
    /\ conn[c].proc \in {"none", "reaped"}
    /\ conn[c].reader \in {"none", "ended"}

\* C4: whenever the terminal handler has ended, the pty pair, the attach
\* process and the reader task it opened are released, and a connection whose
\* spawn failed after the pty pair was opened is closed with an error.
\* The handler does not keep this: see C4_Leak.
C4_AsStated ==
    \A c \in Conns :
        conn[c].pc = "done" =>
            /\ Released(c)
            /\ conn[c].raised = "OSError" /\ conn[c].tdLog = <<>> =>
                   conn[c].code # NoCode

\* the state C4 rules out: the spawn raised, both descriptors are still open
C4_Leak ==
    \E c \in Conns :
        /\ conn[c].pc = "done"
        /\ conn[c].raised = "OSError"
        /\ conn[c].master = "open"
        /\ conn[c].slave = "open"

TeardownOrder == <<"cancel", "await", "close", "kill", "reap">>

\* C5: every exit from bridging (peer disconnect, error in the message loop,
\* cancellation) runs the teardown to its end and in this order: cancel the
\* reader, await it, close the pty master, kill the attach process, reap it;
\* an error a step raises does not stop the steps after it.
C5_TeardownOrdered ==
    /\ [](\A c \in Conns :
            /\ Len(conn[c].tdLog) <= Len(TeardownOrder)
            /\ conn[c].tdLog = SubSeq(TeardownOrder, 1, Len(conn[c].tdLog))
            /\ conn[c].exit # "none" /\ conn[c].pc = "done" =>
                   /\ conn[c].tdLog = TeardownOrder
                   /\ Released(c))
    /\ \A c \in Conns :
          (conn[c].exit # "none") ~> (conn[c].tdLog = TeardownOrder)

\* the handler was cancelled, and its teardown went through although the
\* await, the close and the kill each raised
C5_Witness ==
    \E c \in Conns :
        /\ conn[c].pc = "done"
        /\ conn[c].exit = "cancelled"
        /\ conn[c].tdErr = {"await", "close", "kill"}
        /\ conn[c].tdLog = TeardownOrder
        /\ Released(c)

Causes == {"timeout", "wrong_type", "missing_token", "bad_token",
           "unknown_session"}

\* why a connection failed before bridging, from what the peer did
Cause(c) ==
    LET raw == conn[c].first
        token == get(raw, "token", EmptyToken)
    IN  CASE conn[c].waited >= AUTH_TIMEOUT_SECONDS -> "timeout"
          [] raw = NoFrame -> "none"
          [] raw.type # "auth" -> "wrong_type"
          [] token = EmptyToken -> "missing_token"
          [] ~(token.sig /\ ~token.expired /\ token.typ = "access") ->
                 "bad_token"
          [] conn[c].probed = "missing" -> "unknown_session"
          [] OTHER -> "none"

CloseCode ==
    [k \in Causes |->
        CASE k = "timeout" -> 4001
          [] k = "wrong_type" -> 4002
          [] k = "missing_token" -> 4003
          [] k = "bad_token" -> 4004
          [] OTHER -> 4005]

LastSent(c) == conn[c].sent[Len(conn[c].sent)]

\* C6: a connection that fails before bridging for one of the five causes
\* (auth timeout, wrong first message type, missing or empty token, invalid
\* or expired token, unknown session id) is closed with the code of its
\* cause, no two causes have the same code, and the four auth failures send
\* an auth.fail frame with a reason before the close.
C6_CloseCodeNamesCause ==
    /\ \A k1, k2 \in Causes : CloseCode[k1] = CloseCode[k2] => k1 = k2
    /\ \A c \in Conns :
          Cause(c) \in Causes =>
              /\ conn[c].pc = "done"
              /\ conn[c].code = CloseCode[Cause(c)]
              /\ conn[c].sent # <<>>
              /\ Cause(c) # "unknown_session" =>
                    /\ LastSent(c).type = "auth.fail"
                    /\ LastSent(c).reason # ""
              /\ \A k \in Causes \ {Cause(c)} :
                    conn[c].code # CloseCode[k]

C6_Witness ==
    \E c \in Conns :
        /\ conn[c].pc = "done"
        /\ Cause(c) = "missing_token"
        /\ conn[c].first = [type |-> "auth", token |-> EmptyToken]
        /\ conn[c].code = 4003

\* C7: a connection with a valid token and a session_id no tmux session
\* exists for gets an error frame and is closed, and nothing is allocated
\* for it at any time: no pty descriptor, no attach process, no reader task,
\* no new session.
C7_UnknownSessionAllocatesNothing ==
    \A c \in Conns :
        conn[c].probed = "missing" =>
            /\ conn[c].pc = "done"
            /\ LastSent(c).type = "error"
            /\ conn[c].code # NoCode
            /\ conn[c].master = "none"
            /\ conn[c].slave = "none"
            /\ conn[c].proc = "none"
            /\ conn[c].reader = "none"
            /\ ~conn[c].made
            /\ conn[c].sid = conn[c].first.session_id

\* a session the gateway made was killed, and a client then asks for it
C7_Witness ==
    \E c \in Conns :
        /\ conn[c].probed = "missing"
        /\ conn[c].first.token = AccessToken
        /\ conn[c].sid \in usedIds
        /\ conn[c].pc = "done"

\* C8: when the pty reader reaches EOF or a fatal error while bridging, the
\* bridge ends without the peer doing anything: teardown runs, the resources
\* are released and the connection is closed.
\* The handler does not keep this: nothing wakes it when the reader ends.
C8_AsStated ==
    \A c \in Conns :
        (conn[c].pc = "bridging" /\ conn[c].readerEnd = "eof")
            ~> (conn[c].pc = "done" /\ Released(c))

\* ---------------------------------------------------------------- C9, C10
ListNow ==
    LET run == tmux_list_sessions
    IN  list_sessions(run.rc, run.stdout, registry)

Listed(listing, session_id) ==
    {i \in 1..Len(listing) : listing[i].session_id = session_id}

\* call o of this kind has returned without an exception
Returned(o, kind) ==
    op[o].kind = kind /\ op[o].pc = "done" /\ op[o].result = "ok"

\* nothing but call o itself touched the tmux server since o's last command
Undisturbed(o) == DOMAIN tmux = op[o].live

\* C9: after create(name), list() has an entry with the returned id and the
\* tmux name prefix + id; after kill(id) succeeds, list() has no entry with
\* that id and exists(id) is false; kill of an id with no live session
\* fails with not-found (ValueError): a kill goes on to its kill-session
\* command only when the session was live at its probe, and ends with
\* ValueError otherwise.
C9_RoundTrip ==
    \A o \in Ops :
        /\ Returned(o, "create") /\ Undisturbed(o) =>
              \E i \in Listed(ListNow, op[o].info.session_id) :
                  ListNow[i].tmux_name = <<"arc4de", "-">> \o op[o].id
        /\ Returned(o, "kill") /\ Undisturbed(o) =>
              /\ Listed(ListNow, op[o].id) = {}
              /\ ~session_exists(op[o].id)
        /\ op[o].kind = "kill" /\ op[o].pc \notin {"kill_ret", "done"} =>
              /\ op[o].pc = "kill_cmd"
              /\ (<<"arc4de", "-">> \o op[o].id) \in op[o].live
        /\ op[o].kind = "kill" /\ op[o].pc = "done" /\ op[o].rc = 0
              /\ op[o].result # "ok" =>
              op[o].result = "ValueError"

\* a session the gateway made was killed through the gateway
C9_Witness ==
    \E o \in Ops :
        /\ op[o].kind = "kill"
        /\ op[o].pc = "done"
        /\ op[o].result = "ok"
        /\ op[o].id \in GenIds
        /\ Listed(ListNow, op[o].id) = {}
        /\ ~session_exists(op[o].id)

HasPrefix(n) == Len(n) > 2 /\ n[1] = "arc4de" /\ n[2] = "-"

\* C10: list() returns one entry for each live tmux session whose name
\* starts with the prefix and no other entry, whatever the registry holds: a
\* live prefixed session without a registry record is listed under its id
\* with an empty creation time, a record whose session is dead is not
\* listed, a foreign session is not listed.
C10_ListReconciles ==
    [][\A o \in Ops :
          op[o].pc = "list_ret" /\ op'[o].pc = "done" =>
             LET l == op'[o].listing
                 live == op[o].live
             IN  /\ \A n \in live :
                       HasPrefix(n) =>
                          Cardinality({i \in 1..Len(l) :
                                          l[i].tmux_name = n}) = 1
                 /\ \A i \in 1..Len(l) :
                       /\ l[i].tmux_name \in live
                       /\ HasPrefix(l[i].tmux_name)
                       /\ l[i].tmux_name = <<"arc4de", "-">> \o l[i].session_id
                       /\ IF l[i].session_id \in DOMAIN registry
                          THEN /\ l[i].name = registry[l[i].session_id].name
                               /\ l[i].created_at =
                                     registry[l[i].session_id].created_at
                          ELSE /\ l[i].name = l[i].session_id
                               /\ l[i].created_at = <<>>
      ]_vars

\* a listing made while the registry had a record of a dead session, a
\* prefixed session without a record was live, and a foreign one too
C10_Witness ==
    \E o \in Ops :
        /\ op[o].kind = "list"
        /\ op[o].pc = "done"
        /\ \E session_id \in DOMAIN registry :
              tmux_name(session_id) \notin op[o].live
        /\ \E n \in op[o].live : ~HasPrefix(n)
        /\ \E n \in op[o].live :
              HasPrefix(n) /\ SubSeq(n, 3, Len(n)) \notin DOMAIN registry
        /\ Len(op[o].listing) = 1
        /\ op[o].listing[1].created_at = <<>>


\* --------------------------------------------------------------- C11, C12
\* the age on record for a session when sweep o began, in hours
RecordedAge(o, session_id) == op[o].at[1] - registry[session_id].created_at[1]

\* C11: cleanup_expired_sessions(ttl) removes every live session whose
\* recorded age exceeds ttl, keeps every session whose recorded age is under
\* ttl, and never removes a session without a recorded creation time: the
\* sessions it hands to kill_session have, at that moment, a creation time on
\* record that is more than ttl before the start of the sweep; it removes no
\* others; and when it returns, no session it listed with such a creation
\* time is live.
C11_SweepByAge ==
    /\ [][\A o \in Ops :
            op'[o].kind = "sweep" =>
               \A session_id \in op'[o].tried \ op[o].tried :
                  /\ op[o].kind = "sweep"
                  /\ Listed(op[o].listing, session_id) # {}
                  /\ session_id \in DOMAIN registry
                  /\ registry[session_id].created_at # <<>>
                  /\ RecordedAge(o, session_id) > op[o].ttl
       ]_vars
    /\ [](\A o \in Ops :
            op[o].kind = "sweep" /\ op[o].pc \in {"sweep_loop", "done"} =>
               /\ \A i \in 1..Len(op[o].removed) :
                     op[o].removed[i] \in op[o].tried
               /\ op[o].pc = "done" =>
                     \A i \in 1..Len(op[o].listing) :
                         LET at == op[o].listing[i].created_at
                         IN  at # <<>> /\ op[o].at[1] - at[1] > op[o].ttl =>
                                op[o].listing[i].tmux_name \notin DOMAIN tmux)

\* a sweep that removed an old session and left a young and an undated one
C11_Witness ==
    \E o \in Ops :
        /\ op[o].kind = "sweep"
        /\ op[o].pc = "done"
        /\ Len(op[o].removed) = 1
        /\ \E i \in 1..Len(op[o].listing) :
              /\ op[o].listing[i].created_at = <<>>
              /\ op[o].listing[i].tmux_name \in DOMAIN tmux
        /\ \E i \in 1..Len(op[o].listing) :
              /\ op[o].listing[i].created_at # <<>>
              /\ op[o].at[1] - op[o].listing[i].created_at[1] < op[o].ttl
              /\ op[o].listing[i].tmux_name \in DOMAIN tmux

\* C12: a registry entry whose tmux session was killed outside the gateway
\* is gone from the registry after the next list().
\* list_sessions does not keep this: it only reads the registry.
C12_AsStated ==
    [][\A o \in Ops :
          op[o].kind = "list" /\ op[o].pc = "list_ret" /\ op'[o].pc = "done" =>
              \A session_id \in DOMAIN registry' :
                  \/ tmux_name(session_id) \in op[o].live
                  \/ tmux_name(session_id) \in DOMAIN tmux'
      ]_vars


\* -------------------------------------------------------------------- C13
InTeardown(c) ==
    conn[c].pc \in {"td_cancel", "td_await", "td_close", "td_kill", "td_wait"}

\* C13: tearing a connection down ends its attach process and nothing else:
\* no step of the teardown changes the tmux server, so the session is still
\* there afterwards, and a connection that then asks for the session by its
\* id, while it is live, is attached to that session.
C13_TeardownKeepsSession ==
    [][\A c \in Conns :
          /\ InTeardown(c) /\ conn'[c] # conn[c] =>
                /\ tmux' = tmux
                /\ registry' = registry
          /\ conn[c].pc = "probe" /\ conn'[c].pc # "probe"
                /\ (<<"arc4de", "-">> \o conn[c].first.session_id)
                       \in DOMAIN tmux =>
                /\ conn'[c].pc = "open_pty"
                /\ conn'[c].sid = conn[c].first.session_id
                /\ ~conn'[c].made
      ]_vars

\* a connection bridging to a session that an earlier connection made and
\* was torn down from
C13_Witness ==
    \E c \in Conns :
        /\ conn[c].pc = "bridging"
        /\ conn[c].proc = "running"
        /\ conn[c].probed = "found"
        /\ ~conn[c].made
        /\ conn[c].sid \in usedIds
        /\ conn[c].sid = conn[c].first.session_id


\* --------------------------------------------------------------- C14, C15
GoodFor(token, typ) == token.sig /\ ~token.expired /\ token.typ = typ

\* C14: access-token verification accepts only a validly signed, unexpired
\* token of type access; refresh-token verification accepts only a validly
\* signed, unexpired token of type refresh that carries a jti; so no refresh
\* token passes a protected route or the terminal auth, and no access token
\* passes refresh.
C14_TokenTypesKeptApart ==
    /\ \A token \in AllTokens :
          /\ decode_access_token(token).ok => GoodFor(token, "access")
          /\ decode_refresh_token(token).ok =>
                GoodFor(token, "refresh") /\ token.jti # NoJti
    /\ \A r \in Slots :
          req[r].pc = "done" /\ req[r].status = 200 =>
              /\ req[r].kind \in {"protected", "terminal", "logout"} =>
                    GoodFor(req[r].access, "access")
              /\ req[r].kind = "refresh" =>
                    GoodFor(req[r].token, "refresh") /\ req[r].token.jti # NoJti

\* a protected route has refused a refresh token that is signed, unexpired
\* and active
C14_Witness ==
    \E r \in Slots :
        /\ req[r].pc = "done"
        /\ req[r].kind = "protected"
        /\ GoodFor(req[r].access, "refresh")
        /\ req[r].access.jti \in active
        /\ req[r].status = 401

Handled(r, kind) ==
    req[r].kind = kind /\ req[r].pc = "pending" /\ req'[r].pc = "done"

\* C15: a logout with a valid access token and a valid refresh token leaves
\* that token's jti inactive, and every later refresh with it is answered
\* 401 (an inactive jti that was issued stays inactive, and refresh with an
\* inactive jti is answered 401); a logout without a valid access token is
\* answered 401 and revokes nothing.
C15_LogoutRevokes ==
    [][/\ \A r \in Slots :
             /\ Handled(r, "logout") /\ GoodFor(req[r].access, "access")
                   /\ GoodFor(req[r].token, "refresh")
                   /\ req[r].token.jti # NoJti =>
                   /\ req[r].token.jti \notin active'
                   /\ req'[r].status = 200
             /\ Handled(r, "logout") /\ ~GoodFor(req[r].access, "access") =>
                   /\ req'[r].status = 401
                   /\ active' = active
             /\ Handled(r, "refresh") /\ req[r].token.jti \notin active =>
                   req'[r].status = 401
       /\ \A j \in 1..(nextJti - 1) : j \notin active => j \notin active'
      ]_vars

\* a refresh with a token that a logout revoked has been refused
C15_Witness ==
    \E r \in Slots :
        /\ req[r].pc = "done"
        /\ req[r].kind = "refresh"
        /\ GoodFor(req[r].token, "refresh")
        /\ req[r].token.jti \in 1..(nextJti - 1)
        /\ req[r].token.jti \notin active
        /\ req[r].token.jti \notin rotated
        /\ req[r].status = 401


C17_AddRevokeIdempotent ==
    [][\A r \in Slots :
          LET jti == req[r].token.jti
          IN  /\ Handled(r, "add") =>
                    /\ jti \in active'
                    /\ active' \ {jti} = active \ {jti}
                    /\ jti \in active => active' = active
                    /\ add(active', jti) = active'
              /\ Handled(r, "revoke") =>
                    /\ jti \notin active'
                    /\ active' \ {jti} = active \ {jti}
                    /\ jti \notin active => active' = active
                    /\ revoke(active', jti) = active'
                    /\ req'[r].status = 200
      ]_vars

\* revoke of a jti that is not active has returned, others being active
C17_Witness ==
    \E r \in Slots :
        /\ req[r].pc = "done"
        /\ req[r].kind = "revoke"
        /\ req[r].status = 200
        /\ req[r].token.jti \notin active
        /\ active # {}


\* the frame a connection received last
LastRecv(c) == conn[c].recv[Len(conn[c].recv)]

\* a step in which connection c receives a frame while bridging
Receives(c) ==
    /\ conn[c].pc = "bridging"
    /\ Len(conn'[c].recv) = Len(conn[c].recv) + 1

\* C18: while bridging, a frame whose type is not ping, input or resize is
\* answered by exactly one error frame and nothing else happens: the
\* connection keeps bridging, so no run of such frames closes it or starts
\* its teardown; whatever was received before, a ping is then still answered
\* by a pong and the data of an input frame is still written to the pty.
C18_UnknownTypeNotFatal ==
    [][\A c \in Conns :
         Receives(c) =>
            LET msg == conn'[c].recv[Len(conn'[c].recv)]
                msg_type == get(msg, "type", "None")
            IN  /\ msg \in UnknownFrames =>
                     conn'[c] = [conn[c] EXCEPT
                         !.recv = Append(@, msg),
                         !.sent = Append(@, ErrorFrame(
                                     <<"Unknown message type: ", msg_type>>))]
                /\ msg = PingFrame =>
                     conn'[c] = [conn[c] EXCEPT !.recv = Append(@, msg),
                                                !.sent = Append(@, Pong)]
                /\ msg = InputFrame /\ conn[c].proc = "running" =>
                     conn'[c] = [conn[c] EXCEPT
                         !.recv = Append(@, msg),
                         !.written = @ \o msg.data]
                /\ msg = ResizeFrame =>
                     \/ conn'[c] = [conn[c] EXCEPT !.recv = Append(@, msg),
                                        !.winsize = <<msg.rows, msg.cols>>,
                                        !.cmds = @ \cup {ResizeCmd(
                                                    conn[c].tmux_name,
                                                    msg.cols, msg.rows)}]
                     \/ conn'[c] = [conn[c] EXCEPT !.recv = Append(@, msg),
                                        !.winsize = <<msg.rows, msg.cols>>,
                                        !.pc = "td_cancel", !.exit = "error"]
    ]_vars

C18_Witness ==
    \E c \in Conns :
        /\ conn[c].pc = "bridging"
        /\ conn[c].recv = <<[type |-> "bogus"], PingFrame>>
        /\ LastSent(c) = Pong
        /\ \E i \in DOMAIN conn[c].sent :
              conn[c].sent[i] =
                  ErrorFrame(<<"Unknown message type: ", "bogus">>)

\* how many times x occurs in seq
Count(seq, x) == Cardinality({i \in DOMAIN seq : seq[i] = x})

\* connection c sent a first message that passes the auth phase
ValidAuth(c) == conn[c].first # NoFrame /\ auth_phase(conn[c].first).ok

\* C19: a connection whose first message is a valid auth message is sent
\* auth.ok, unless its session id names no session or tmux or the pty fails;
\* auth.ok is the first frame it is sent and is sent once; from then on the
\* pongs sent are as many as the pings received; a connection whose auth
\* message carries a garbage token is sent auth.fail with a reason, nothing
\* else, and is closed.
C19_AuthThenPingPong ==
    /\ [](\A c \in Conns :
            /\ Count(conn[c].sent, AuthOk) <= 1
            /\ Count(conn[c].sent, AuthOk) = 1 => conn[c].sent[1] = AuthOk
            /\ conn[c].pc = "bridging" \/ InTeardown(c) =>
                  ValidAuth(c) /\ Count(conn[c].sent, AuthOk) = 1
            /\ Count(conn[c].sent, Pong) = Count(conn[c].recv, PingFrame)
            /\ conn[c].recv # <<>> => Count(conn[c].sent, AuthOk) = 1
            /\ conn[c].first = [type |-> "auth", token |-> GarbageToken] =>
                  /\ conn[c].pc = "done"
                  /\ Len(conn[c].sent) = 1
                  /\ conn[c].sent[1].type = "auth.fail"
                  /\ conn[c].sent[1].reason # ""
                  /\ conn[c].code # NoCode
            /\ ValidAuth(c) /\ conn[c].pc = "done"
                 /\ Count(conn[c].sent, AuthOk) = 0 =>
                  \/ conn[c].probed = "missing"
                  \/ conn[c].raised \in {"RuntimeError", "OSError"})
    /\ \A c \in Conns :
          ValidAuth(c) ~>
             Count(conn[c].sent, AuthOk) = 1 \/ conn[c].pc = "done"

C19_Witness ==
    \E c \in Conns :
        /\ conn[c].first = [type |-> "auth", token |-> AccessToken]
        /\ conn[c].recv = <<PingFrame, PingFrame>>
        /\ conn[c].sent[1] = AuthOk
        /\ Count(conn[c].sent, Pong) = 2


\* the sequences of seqs, one after the other
RECURSIVE Flatten(_)
Flatten(seqs) ==
    IF seqs = <<>> THEN <<>> ELSE Head(seqs) \o Flatten(Tail(seqs))

\* the data of the output frames in frames, in the order they were sent
RECURSIVE OutData(_)
OutData(frames) ==
    IF frames = <<>> THEN <<>>
    ELSE IF Head(frames).type = "output"
    THEN <<Head(frames).data>> \o OutData(Tail(frames))
    ELSE OutData(Tail(frames))

\* the chunks of connection c that were read and are not held for sending
Passed(c) ==
    SubSeq(conn[c].reads, 1,
           Len(conn[c].reads) - (IF conn[c].held = <<>> THEN 0 ELSE 1))

ChunkOrderKept ==
    \A c \in Conns :
        OutData(conn[c].sent) =
            [i \in 1..Len(Passed(c)) |-> decode(conn[c].reads[i])]


\* -------------------------------------------------------------------- C21
\* C21: the writes to a connection go through one task, the one that owns
\* the connection, so that no two of them are in progress at the same time.
\* The code has no such task: the handler and the reader each call send_json
\* on the websocket, and one starts a write while the other's waits.
C21_AsStated ==
    \A c \in Conns : Cardinality(conn[c].writing) <= 1


\* ---------------------------------------------------------------- C22, C23
\* the cloudflared processes ever started for port
StartedFor(port) == {n \in DOMAIN tun.procs : tun.procs[n].port = port}

\* the tunnel.preview frames connection c was sent for port
Notified(c, port) ==
    {i \in DOMAIN conn[c].sent :
        conn[c].sent[i].type = "tunnel.preview" /\ conn[c].sent[i].port = port}

\* C22: for each port at most one preview tunnel process is ever started,
\* also when the port is detected again while the first start is still in
\* progress, and a connection is sent at most one tunnel.preview for it.
\* start_preview_tunnel tests preview_tunnels before its Popen and writes
\* it only after the wait for the url, and the reader tests preview_urls,
\* so a second detection in between starts a second process.
C22_AsStated ==
    \A port \in {3000, 8000} :
        /\ Cardinality(StartedFor(port)) <= 1
        /\ \A c \in Conns : Cardinality(Notified(c, port)) <= 1

\* a step of a preview task
TaskStep(t) ==
    /\ t \in DOMAIN tun.tasks
    /\ tun'.tasks[t].pc # tun.tasks[t].pc

\* C23: whatever port detection finds and however the start of a preview
\* tunnel ends, the bridge goes on: the step of the reader that handles a
\* chunk sends the chunk's output frame and leaves the reader running and
\* the handler where it was, and a step of a preview task changes nothing
\* of the connection but, at most, appends one tunnel.preview frame.
C23_TunnelFailuresSwallowed ==
    [][\A c \in Conns :
         /\ conn'[c].nOut = conn[c].nOut + 1 =>
               /\ conn'[c].sent =
                     Append(conn[c].sent, Output(decode(conn[c].held)))
               /\ conn'[c].reader = conn[c].reader
               /\ conn'[c].pc = conn[c].pc
               /\ conn'[c].code = conn[c].code
         /\ \A t \in 1..MaxTasks :
               TaskStep(t) =>
                  /\ conn'[c] = [conn[c] EXCEPT !.sent = conn'[c].sent]
                  /\ \/ conn'[c].sent = conn[c].sent
                     \/ /\ Len(conn'[c].sent) = Len(conn[c].sent) + 1
                        /\ conn'[c].sent[Len(conn'[c].sent)].type =
                              "tunnel.preview"
                        /\ SubSeq(conn'[c].sent, 1, Len(conn[c].sent)) =
                              conn[c].sent
    ]_vars

\* a preview task ended without a url, its process terminated, and the
\* connection bridges on: the chunk that named the port and a later one
\* were both sent
C23_Witness ==
    \E c \in Conns :
        /\ conn[c].pc = "bridging"
        /\ conn[c].reader = "running"
        /\ conn[c].nOut = 2
        /\ conn[c].sent[2] = Output(<<"listening on 3000">>)
        /\ \E t \in DOMAIN tun.tasks :
              /\ tun.tasks[t].pc = "done"
              /\ tun.tasks[t].url = NoUrl
              /\ tun.tasks[t].proc # 0
              /\ tun.procs[tun.tasks[t].proc].state = "terminated"


\* ---------------------------------------------------------------- C24, C25
\* C24: no exception of an iteration leaves the sweeper: a failed iteration
\* is logged and the next one is scheduled an hour later, so that, until it
\* is cancelled, the sweeper runs an iteration whenever one is due.
C24_SweeperKeepsGoing ==
    /\ [](/\ sweeper.propagated = "none"
          /\ sweeper.pc \in {"sleep", "sweeping", "cancelled"}
          /\ sweeper.iters = sweeper.failed + sweeper.swept
          /\ sweeper.pc = "sleep" => sweeper.due <= wall + 1)
    /\ \A k \in 0..MaxWall :
          (sweeper.pc = "sleep" /\ sweeper.iters = k /\ wall >= sweeper.due)
             ~> (sweeper.iters > k \/ sweeper.pc \in {"cancelled", "sweeping"})

\* two iterations failed and the third is scheduled
C24_Witness ==
    /\ sweeper.failed = 2
    /\ sweeper.pc = "sleep"
    /\ sweeper.due = wall + 1

\* C25: on every interval the sweeper runs the registry's cleanup with the
\* configured TTL: every iteration it has finished was a sweep.
\* Settings has no TTL: each iteration raises before it lists a session.
C25_AsStated == sweeper.iters = sweeper.swept


\* -------------------------------------------------------------------- C26
\* the ids in seq
Range(seq) == {seq[i] : i \in DOMAIN seq}

\* C26: a sweep goes through every session it listed, also after a kill
\* that failed: when it returns, every session it listed with a creation
\* time older than the ttl was handed to kill_session; an id enters the
\* returned list when, and only when, its kill-session command succeeded,
\* and then its registry entry goes in the same step; no returned id is
\* live in tmux or has a registry entry.
C26_BestEffort ==
    /\ [](\A o \in Ops :
            op[o].kind = "sweep" /\ op[o].pc = "done" =>
               /\ op[o].todo = <<>>
               /\ \A i \in DOMAIN op[o].listing :
                     LET at == op[o].listing[i].created_at
                     IN  at # <<>> /\ op[o].at[1] - at[1] > op[o].ttl =>
                            op[o].listing[i].session_id \in op[o].tried
               /\ Cardinality(Range(op[o].removed)) = Len(op[o].removed)
               /\ \A id \in Range(op[o].removed) :
                     /\ id \in op[o].tried
                     /\ tmux_name(id) \notin DOMAIN tmux
                     /\ id \notin DOMAIN registry)
    /\ [][\A o \in Ops :
            /\ op'[o].kind = "sweep" /\ op'[o].removed # op[o].removed
                 /\ op'[o].removed # <<>> =>
                  /\ op[o].pc = "sweep_kill_ret" /\ op[o].rc = 0
                  /\ op'[o].removed = Append(op[o].removed, op[o].id)
                  /\ op[o].id \notin DOMAIN registry'
                  /\ tmux_name(op[o].id) \notin DOMAIN tmux
            /\ op[o].pc = "sweep_kill_ret" /\ op'[o].pc # "sweep_kill_ret" =>
                  IF op[o].rc = 0
                  THEN op'[o].removed = Append(op[o].removed, op[o].id)
                  ELSE op'[o].removed = op[o].removed
       ]_vars

\* a sweep that returned one id, after the kill of an older session before
\* it in the list had failed
C26_Witness ==
    \E o \in Ops :
        /\ op[o].kind = "sweep"
        /\ op[o].pc = "done"
        /\ Len(op[o].listing) >= 2
        /\ Len(op[o].removed) = 1
        /\ op[o].listing[1].session_id \in op[o].tried
        /\ op[o].listing[1].session_id # op[o].removed[1]
        /\ op[o].listing[1].session_id \in DOMAIN registry


\* -------------------------------------------------------------------- C27
\* an Authorization header with the Bearer scheme and a token that is
\* signed, not expired and of type access
BearerValid(h) ==
    /\ h # NoHeader
    /\ h.scheme \in {"Bearer", "bearer"}
    /\ h.token.sig /\ ~h.token.expired /\ h.token.typ = "access"

\* C27: a create, list or delete request without a valid access token in a
\* Bearer Authorization header is answered 401, no TmuxManager call is made
\* for it, and the step that handles it changes neither the tmux server
\* nor the registry.
C27_RoutesNeedToken ==
    /\ [](\A o \in Ops :
            op[o].route # "none" /\ ~BearerValid(op[o].authz) =>
               /\ op[o].pc \in {"respond", "answered"}
               /\ op[o].status = 401
               /\ op[o].kind = "none")
    /\ [][\A o \in Ops :
            op'[o] # op[o] /\ op'[o].route # "none"
               /\ ~BearerValid(op'[o].authz) =>
                  /\ tmux' = tmux
                  /\ registry' = registry
                  /\ usedIds' = usedIds
       ]_vars

\* a delete request for a live session, with a good token under the Basic
\* scheme, was answered 401 and the session is still there
C27_Witness ==
    \E o \in Ops :
        /\ op[o].route = "delete"
        /\ op[o].pc = "answered"
        /\ op[o].status = 401
        /\ op[o].authz = [scheme |-> "Basic", token |-> AccessToken]
        /\ tmux_name(op[o].id) \in DOMAIN tmux
        /\ op[o].id \in DOMAIN registry


\* -------------------------------------------------------------------- C28
\* C28: create_session(name) raises RuntimeError when tmux new-session
\* fails and the registry is then as it was; when new-session succeeds the
\* registry gains exactly one entry, under the id that is returned, holding
\* the name that was passed and the time taken when the call began.
C28_CreateRegistersOnce ==
    [][\A o \in Ops :
        /\ op[o].pc = "idle" /\ op'[o].kind = "create" =>
              /\ op'[o].at = <<wall>>
              /\ op'[o].id \notin usedIds
              /\ registry' = registry
        /\ op[o].pc = "create_ret" /\ op'[o].pc = "done" =>
              IF op[o].rc # 0
              THEN /\ op'[o].result = "RuntimeError"
                   /\ registry' = registry
              ELSE LET session_id == op'[o].info.session_id
                   IN  /\ op'[o].result = "ok"
                       /\ session_id = op[o].id
                       /\ session_id \notin DOMAIN registry
                       /\ DOMAIN registry' = DOMAIN registry \cup {session_id}
                       /\ \A i \in DOMAIN registry : registry'[i] = registry[i]
                       /\ registry'[session_id] =
                             [name |-> op[o].name, created_at |-> op[o].at]
                       /\ op'[o].info.name = op[o].name
                       /\ op'[o].info.created_at = op[o].at
    ]_vars

\* a create has just failed after an earlier one, begun at a later time
\* than 0, had succeeded: the registry holds the earlier session only
C28_Witness ==
    \E o \in Ops :
        /\ op[o].kind = "create" /\ op[o].pc = "done"
        /\ op[o].result = "RuntimeError"
        /\ op[o].id \notin DOMAIN registry
        /\ \E i \in DOMAIN registry :
              /\ registry[i].name \in DisplayNames
              /\ registry[i].created_at = <<1>>


\* -------------------------------------------------------------------- C29
\* the sessions of the tmux server a step created, ended or changed
Touched ==
    {n \in DOMAIN tmux \cup DOMAIN tmux' :
        \/ n \notin DOMAIN tmux
        \/ n \notin DOMAIN tmux'
        \/ tmux'[n] # tmux[n]}

GatewayStep == op' # op \/ conn' # conn

\* C29: every tmux command of the gateway is aimed at "arc4de-" followed by
\* the session id and never at a display name: a step of the gateway
\* touches no session but the one so named for the id it works on, a
\* connection's attach and resize commands carry that name, the has-session
\* of a kill and of a connection answers for that name; so a session of the host whose name lacks the
\* prefix is never made, ended, resized or attached to by the gateway; and
\* an id that create_session takes was never handed out before.
C29_OnlyPrefixedNames ==
    /\ [](/\ \A n \in DOMAIN tmux : ~HasPrefix(n) => n \in ForeignNames
          /\ \A c \in Conns : \A k \in conn[c].cmds :
                /\ k.target = <<"arc4de", "-">> \o conn[c].sid
                /\ HasPrefix(k.target)
                /\ k.target # <<"terminal">>
          /\ \A n \in DOMAIN tmux :
                ~HasPrefix(n) => session_attached(n) = tmux[n])
    /\ [][/\ GatewayStep =>
                /\ \A n \in Touched : HasPrefix(n)
                /\ \A n \in Touched :
                      \/ \E o \in Ops :
                            /\ op'[o] # op[o]
                            /\ n = <<"arc4de", "-">> \o op'[o].id
                            /\ n # op'[o].name
                      \/ \E c \in Conns :
                            /\ conn'[c] # conn[c]
                            /\ n = <<"arc4de", "-">> \o conn'[c].sid
          /\ \A o \in Ops :
                op[o].pc = "idle" /\ op'[o].kind = "kill" =>
                   (op'[o].result = "ValueError")
                      = ((<<"arc4de", "-">> \o op'[o].id) \notin DOMAIN tmux)
          /\ \A o \in Ops :
                op[o].pc = "idle" /\ op'[o].kind = "create" =>
                   /\ op'[o].id \notin usedIds
                   /\ op'[o].id \notin DOMAIN registry
                   /\ \A c \in Conns : conn[c].sid # op'[o].id
          /\ \A c \in Conns :
                conn[c].pc = "probe" /\ conn'[c] # conn[c] =>
                   (conn'[c].probed = "found")
                      = ((<<"arc4de", "-">> \o conn[c].sid) \in DOMAIN tmux)
          /\ \A c \in Conns :
                conn[c].pc = "create" /\ conn'[c].pc = "create_ret" =>
                   /\ conn'[c].sid \notin usedIds
                   /\ conn'[c].sid \notin DOMAIN registry
                   /\ \A o \in Ops : op[o].id # conn'[c].sid
      ]_vars

\* with a session of the host whose name lacks the prefix live and
\* untouched, the gateway has created a session and killed it again, and a
\* connection has attached to another and resized it
C29_Witness ==
    /\ <<"my", "arc4de", "-", "a1">> \in DOMAIN tmux
    /\ \E o \in Ops :
          /\ op[o].kind = "kill" /\ op[o].pc = "done" /\ op[o].result = "ok"
          /\ op[o].id \in GenIds
    /\ \E c \in Conns :
          /\ conn[c].sid \in GenIds
          /\ {k.cmd : k \in conn[c].cmds} =
                {"attach-session", "resize-window"}


\* -------------------------------------------------------------------- C30
\* C30: the read in the worker thread has ended before teardown closes the
\* pty master: in no state is the master closed while the worker's read is
\* still going on, or has its flag reset run on the closed descriptor.
\* The handler does not keep this: cancelling the reader does not stop the
\* thread.
C30_AsStated ==
    \A c \in Conns : conn[c].master = "closed" => conn[c].worker = "idle"


\* -------------------------------------------------------------------- C31
\* a step that is a call of the limiter's method `kind`
Calls(r, kind) == req[r].pc = "idle" /\ req'[r].pc = "done" /\ req'[r].kind = kind

\* C31: is_locked() returns true exactly when a deadline is set and the
\* clock is before it; called with a deadline that has passed it returns
\* false and clears the deadline and the failures; called with no deadline
\* it returns false and changes nothing.
C31_IsLocked ==
    [][\A r \in Slots :
          Calls(r, "is_locked") =>
             /\ req'[r].ret = (lockedUntil # None /\ now < lockedUntil)
             /\ lockedUntil # None /\ now >= lockedUntil =>
                   /\ ~req'[r].ret
                   /\ lockedUntil' = None
                   /\ failures' = <<>>
             /\ lockedUntil = None =>
                   /\ ~req'[r].ret
                   /\ lockedUntil' = None
                   /\ failures' = failures]_vars

\* is_locked() has just answered false at the very time the deadline fell,
\* and the limiter is clear; failures had been recorded
C31_Witness ==
    \E r \in Slots :
        /\ req[r].pc = "done" /\ req[r].kind = "is_locked" /\ ~req[r].ret
        /\ Len(failLog) >= MaxAttempts
        /\ now = failLog[Len(failLog)] + LockoutSeconds
        /\ lockedUntil = None /\ failures = <<>>

\* -------------------------------------------------------------------- C32
\* the record_failure() calls since the last reset() that lie within the
\* window that ends at time t
InWindowAt(t) == {i \in 1..Len(failLog) : failLog[i] > t - WindowSeconds}

\* C32: record_failure() appends the time and drops the failures older than
\* the window; it sets the deadline to the time plus the lockout period when
\* the failures that are left number MaxAttempts or more, and leaves the
\* deadline alone otherwise; so a deadline is only ever set by a call that
\* is at least the MaxAttempts-th within one window.
C32_RecordFailure ==
    [][\A r \in Slots :
          Calls(r, "record_failure") =>
             /\ Len(failures') > 0 /\ failures'[Len(failures')] = now
             /\ \A i \in 1..Len(failures') :
                   failures'[i] > now - WindowSeconds
             /\ Len(failures') =
                   1 + Cardinality({i \in 1..Len(failures) :
                                      failures[i] > now - WindowSeconds})
             /\ lockedUntil' = IF Len(failures') >= MaxAttempts
                               THEN now + LockoutSeconds ELSE lockedUntil
             /\ lockedUntil' # lockedUntil =>
                   Cardinality(InWindowAt(now)) + 1 >= MaxAttempts]_vars

\* five failures, the first four a window older than the fifth, have been
\* recorded, and the limiter is not locked
C32_Witness ==
    \E r \in Slots :
        /\ req[r].pc = "done" /\ req[r].kind = "record_failure"
        /\ Len(failLog) = MaxAttempts
        /\ failLog[1] + WindowSeconds = failLog[MaxAttempts]
        /\ failLog[MaxAttempts - 1] = failLog[1]
        /\ failures = <<now>>
        /\ lockedUntil = None


\* -------------------------------------------------------------------- C33
\* C33: a login answered 200 leaves the limiter with no failure and no
\* deadline, so a deadline is only ever set by a failed login that is at
\* least the MaxAttempts-th within one window among those since the last
\* login answered 200.
C33_SuccessClears ==
    [][\A r \in Slots :
          HandledBy(r, "login") =>
             /\ req'[r].status = 200 =>
                   /\ failures' = <<>>
                   /\ lockedUntil' = None
             /\ lockedUntil' # None /\ lockedUntil' # lockedUntil =>
                   /\ req'[r].status = 401
                   /\ Cardinality({i \in 1..Len(failLog') :
                         failLog'[i] > now - WindowSeconds}) >= MaxAttempts
             /\ Len(failures') <= Len(failLog')]_vars

\* a login has just been answered 200 after a lockout that had run out: the
\* failures that led to it and its deadline are gone
C33_Witness ==
    \E r \in Slots :
        /\ req[r].pc = "done" /\ req[r].kind = "login"
        /\ req[r].status = 200
        /\ req[r].cleared
        /\ failures = <<>>
        /\ lockedUntil = None

\* -------------------------------------------------------------------- C35
\* C35: a login handled while the lockout runs is answered 429 whatever its
\* password and changes neither the failures nor the deadline; the deadline
\* is always the time of the last recorded failure plus the lockout period.
C35_LockedAttemptsLeaveNoTrace ==
    /\ [][\A r \in Slots :
            HandledBy(r, "login") =>
               /\ lockedUntil # None /\ now < lockedUntil =>
                     /\ req'[r].status = 429
                     /\ failures' = failures
                     /\ lockedUntil' = lockedUntil
               /\ req'[r].status = 429 =>
                     /\ failures' = failures
                     /\ lockedUntil' = lockedUntil]_vars
    /\ [](lockedUntil # None =>
            /\ failures # <<>>
            /\ lockedUntil = failures[Len(failures)] + LockoutSeconds
            /\ Len(failLog) > 0
            /\ lockedUntil = failLog[Len(failLog)] + LockoutSeconds)

\* a login with a wrong password was answered 429, later than the failure
\* that set the deadline, and the deadline is where that failure put it
C35_Witness ==
    \E r \in Slots :
        /\ req[r].pc = "done" /\ req[r].kind = "login"
        /\ req[r].password # AuthPassword /\ req[r].status = 429
        /\ failures # <<>>
        /\ now > failures[Len(failures)]
        /\ lockedUntil = failures[Len(failures)] + LockoutSeconds


\* -------------------------------------------------------------------- C34
\* C34: every resize frame received while bridging sets the window size of
\* the connection's pty to its rows and cols (80 and 24 stand in for a
\* missing cols and rows), and a resize-window command with the same cols
\* and rows is started on the tmux session the connection attached to. A
\* size the pty does not take leaves the pty as it was and still starts the
\* command, and the connection keeps bridging with nothing else changed.
\* The one way out of the loop is a spawn of the command that itself raises;
\* the pty has its size by then.
C34_ResizeBoth ==
    [][\A c \in Conns :
         /\ Receives(c)
         /\ get(conn'[c].recv[Len(conn'[c].recv)], "type", "None") = "resize"
         => LET msg == conn'[c].recv[Len(conn'[c].recv)]
                cols == get(msg, "cols", 80)
                rows == get(msg, "rows", 24)
                fits == rows \in 0..65535 /\ cols \in 0..65535
                size == IF fits THEN <<rows, cols>> ELSE conn[c].winsize
                cmd  == [cmd |-> "resize-window",
                         target |-> tmux_name(conn[c].sid),
                         x |-> cols, y |-> rows]
            IN  /\ conn[c].pc = "bridging"
                /\ \/ conn'[c] = [conn[c] EXCEPT !.recv = Append(@, msg),
                                       !.winsize = size,
                                       !.cmds = @ \cup {cmd}]
                   \/ conn'[c] = [conn[c] EXCEPT !.recv = Append(@, msg),
                                       !.winsize = size,
                                       !.pc = "td_cancel", !.exit = "error"]
    ]_vars

\* a resize the pty took, then one it did not take: the pty keeps the first
\* size, both commands were started, and the connection is still bridging
C34_Witness ==
    \E c \in Conns :
        /\ conn[c].pc = "bridging"
        /\ conn[c].recv = <<[type |-> "resize", cols |-> 120, rows |-> 40],
                            [type |-> "resize", cols |-> 70000, rows |-> 40]>>
        /\ conn[c].winsize = <<40, 120>>
        /\ {<<k.x, k.y>> : k \in {k \in conn[c].cmds : k.cmd = "resize-window"}}
              = {<<120, 40>>, <<70000, 40>>}


\* -------------------------------------------------------------------- C36
\* the first message of c is an auth message whose token decodes as an
\* access token
PresentedToken(c) ==
    /\ get(conn[c].first, "type", "") = "auth"
    /\ decode_access_token(get(conn[c].first, "token", EmptyToken)).ok

\* the places of frame in the frames sent
Places(frames, frame_types) ==
    {i \in 1..Len(frames) : frames[i].type \in frame_types}

\* C36: a connection is sent auth.ok at most once, and only when its access
\* token was verified, its session was found or made and its attach process
\* was spawned on that session; every output, pong and tunnel.preview frame
\* comes after auth.ok in what the connection is sent; and a connection that
\* has not presented a valid access token has no session, no pty and no
\* process, and no tmux session or registry entry exists because of it.
C36_AuthOkGatesEverything ==
    \A c \in Conns :
        LET oks == Places(conn[c].sent, {"auth.ok"})
        IN  /\ Cardinality(oks) <= 1
            /\ oks # {} =>
                  /\ PresentedToken(c)
                  /\ conn[c].probed = "found" \/ conn[c].made
                  /\ conn[c].sid # <<>>
                  /\ conn[c].proc # "none"
                  /\ Cmd("attach-session", tmux_name(conn[c].sid))
                        \in conn[c].cmds
            /\ \A i \in Places(conn[c].sent,
                                {"output", "pong", "tunnel.preview"}) :
                  \E j \in oks : j < i
            /\ ~PresentedToken(c) =>
                  /\ conn[c].sid = <<>> /\ ~conn[c].made
                  /\ conn[c].master = "none" /\ conn[c].slave = "none"
                  /\ conn[c].proc = "none" /\ conn[c].reader = "none"
                  /\ conn[c].cmds = {}
                  /\ DOMAIN tmux = {} /\ DOMAIN registry = {}
                  /\ usedIds = {} /\ DOMAIN tun.tasks = {}

\* a connection that made its session was sent auth.ok, then a pong, output
\* and a preview notice
C36_Witness ==
    \E c \in Conns :
        /\ conn[c].made
        /\ Places(conn[c].sent, {"auth.ok"}) = {1}
        /\ Places(conn[c].sent, {"pong"}) # {}
        /\ Places(conn[c].sent, {"output"}) # {}
        /\ Places(conn[c].sent, {"tunnel.preview"}) # {}


\* -------------------------------------------------------------------- C37
\* the jtis handed out so far; login and refresh activate a jti in the step
\* that hands it out, so one of these that is not active was deactivated
Issued == {j \in Jtis : j < nextJti}

\* C37: whatever login, refresh and logout requests arrive, with whatever
\* tokens, a jti that was handed out and is no longer active is not active
\* after any step; in particular no rotated jti is ever active.
C37_DeactivatedStaysOut ==
    /\ [][\A j \in Issued : j \notin active => j \notin active']_vars
    /\ [](rotated \cap active = {})
    /\ [](active \subseteq Issued)

\* jti 1 went by rotation and jti 2 by logout, and a login after them made
\* jti 3 the only active one
C37_Witness ==
    /\ nextJti = 4
    /\ rotated = {1}
    /\ active = {3}
    /\ \E r \in Slots : /\ req[r].kind = "login" /\ req[r].pc = "done"
                         /\ req[r].out = 3


\* -------------------------------------------------------------------- C38
\* C38: a login or refresh answered 200 returns a refresh token whose jti is
\* active when the handler returns, and it is the only jti the request
\* activated; a login or refresh that is turned away (wrong password, locked,
\* a token that does not verify, a token of another type, a jti that is not
\* active) is answered 401 or 429 and leaves the set of active jtis as it
\* was. No other answer occurs.
C38_IssuedIsActive ==
    [][\A r \in Slots :
          Handled(r, "login") \/ Handled(r, "refresh") =>
              LET old == IF req[r].kind = "refresh"
                         THEN {req[r].token.jti} ELSE {}
              IN  /\ req'[r].status \in {200, 401, 429}
                  /\ req'[r].status = 200 =>
                        /\ req'[r].out \in active'
                        /\ req'[r].out \notin active
                        /\ active' = (active \ old) \cup {req'[r].out}
                  /\ req'[r].status # 200 => active' = active
                  /\ req'[r].status = 200 <=>
                        IF req[r].kind = "login"
                        THEN /\ req[r].password = AuthPassword
                             /\ lockedUntil = None \/ now >= lockedUntil
                        ELSE /\ GoodFor(req[r].token, "refresh")
                             /\ req[r].token.jti \in active
    ]_vars

\* jti 1 was rotated into jti 2, failed logins have locked the limiter, and
\* a refresh with the signed, unexpired token of jti 1 was then turned away
\* with jti 2 still active
C38_Witness ==
    /\ active = {2}
    /\ rotated = {1}
    /\ lockedUntil # None
    /\ \E r \in Slots :
          /\ req[r].pc = "done" /\ req[r].kind = "refresh"
          /\ GoodFor(req[r].token, "refresh")
          /\ req[r].token.jti = 1
          /\ req[r].status = 401


\* -------------------------------------------------------------------- C39
\* kill(id) of o ends in this step, at the probe or after the kill command
KillEnds(o) ==
    op[o].pc # "done" /\ op'[o].pc = "done" /\ op'[o].kind = "kill"

\* C39: a kill(id) whose session is not in tmux when its kill command runs,
\* be it unknown from the start or killed from outside after the probe,
\* fails with the not-found error (ValueError) and with no other; and a
\* kill(id) that fails leaves the registry as it was.
\* kill_session does not keep the first part: a kill command that finds no
\* session makes it raise RuntimeError.
C39_AsStated ==
    [][\A o \in Ops :
          KillEnds(o) =>
              /\ op'[o].result \in {"ok", "ValueError"}
              /\ op'[o].result # "ok" => registry' = registry
      ]_vars


\* -------------------------------------------------------------------- C40
\* the connections whose attach process runs on the session of session_id
AttachedTo(session_id) ==
    {c \in Conns : conn[c].proc = "running" /\ conn[c].sid = session_id}

\* C40: a sweep hands a listed session to kill_session exactly when the
\* registry has a creation time for it that lies more than the ttl before
\* the start of the sweep, whatever the state list_sessions reported for it
\* and however many connections are attached; the kill command then ends
\* the session under them; and the reader of every connection whose attach
\* process runs on a session that is gone gets to the end of output, unless
\* the connection leaves bridging first.
C40_SweepIgnoresAttach ==
    /\ [][\A o \in Ops :
            /\ op[o].pc = "sweep_loop" /\ op[o].todo # <<>> /\ op'[o] # op[o]
               => LET id == Head(op[o].todo).session_id
                      created == IF id \in DOMAIN registry
                                 THEN registry[id].created_at ELSE <<>>
                      over == /\ created # <<>>
                              /\ op[o].at[1] - created[1] > op[o].ttl
                  IN  /\ id \in op'[o].tried <=> over
                      /\ over /\ tmux_name(id) \in DOMAIN tmux =>
                            op'[o].pc = "sweep_kill" /\ op'[o].id = id
            /\ op[o].pc = "sweep_kill" /\ op'[o] # op[o]
               /\ tmux_name(op[o].id) \in DOMAIN tmux
               => /\ tmux_name(op[o].id) \notin DOMAIN tmux'
                  /\ op'[o].rc = 0
       ]_vars
    /\ \A c \in Conns :
          (conn[c].reader = "running" /\ SessionGone(c))
             ~> (conn[c].readerEnd = "eof" \/ conn[c].pc # "bridging")

\* a sweep listed the session of a bridging connection as active, with the
\* attach process running, and removed it; the reader of the connection has
\* reached the end of output
C40_Witness ==
    \E c \in Conns, o \in Ops :
        /\ op[o].kind = "sweep"
        /\ op[o].removed = <<conn[c].sid>>
        /\ \E i \in 1..Len(op[o].listing) :
              /\ op[o].listing[i].session_id = conn[c].sid
              /\ op[o].listing[i].state = "active"
        /\ conn[c].pc = "bridging"
        /\ conn[c].readerEnd = "eof"

====
